---- MODULE Spec2Model ----
(***************************************************************************)
(* Federated content search service (onurerdog4n/search-engine).           *)
(*                                                                         *)
(* The module models                                                       *)
(*   - the Content Store (postgres_content_repository.go): the tables      *)
(*     contents, content_stats, content_scores, tags, content_tags and the *)
(*     statements Upsert, CreateOrUpdateStats, CreateOrUpdateScore,        *)
(*     AddTags, MarkStaleContentsAsDeleted, FindByID and Search;           *)
(*   - the Sync Orchestrator (SyncProviderContentsUseCase): one goroutine  *)
(*     per provider, joined by a WaitGroup, then the cache clear;          *)
(*   - the Search Engine (SearchContentsUseCase): validateParams,          *)
(*     generateCacheKey, the cache lookup, the store search and the cache  *)
(*     write, over the Result Cache (redis_cache.go).                      *)
(*                                                                         *)
(* Strings are sequences of one-character strings, so that trimming,       *)
(* lower-casing, splitting, prefix matching and key formatting are         *)
(* computed and not assumed.  Instants are integers (seconds); one clock   *)
(* `now` serves time.Now() and CURRENT_TIMESTAMP and advances by one at    *)
(* every capture of startTime, upsert and sweep.  Decimal values (scores)  *)
(* are integers in hundredths.  Each SQL statement is one atomic step:     *)
(* the count and the rows query of Search are two steps that other writes  *)
(* may come between.  The runs of the Sync Orchestrator follow one         *)
(* another.                                                                *)
(***************************************************************************)
EXTENDS Integers, Sequences, FiniteSets, TLC

VARIABLES
    \* ---- Content Store (PostgreSQL) ----
    contents,      \* table contents: sequence of rows, id = index (SERIAL)
    stats,         \* table content_stats: content_id -> stats row
    scores,        \* table content_scores: content_id -> score row
    tags,          \* table tags: sequence of names, id = index, names unique
    contentTags,   \* table content_tags: set of <<content_id, tag_id>>
    now,           \* the clock (time.Now() / CURRENT_TIMESTAMP)
    lastOp,        \* the last store statement executed and what it returned
    \* ---- Sync Orchestrator ----
    clients,       \* uc.providerClients: the set of provider ids configured
    run,           \* state of SyncProviderContentsUseCase.Execute
    pc,            \* per provider goroutine: position in syncProvider
    startTime,     \* per provider goroutine: startTime := time.Now()
    fetched,       \* per provider goroutine: result of client.FetchContents
    idx,           \* per provider goroutine: index of the record in process
    cur,           \* per provider goroutine: content.ID of that record
    hist,          \* per provider goroutine: what the run did (history)
    \* ---- Provider Adapter ----
    adapter,       \* one activation of FetchContents: its locals and result
    \* ---- HTTP transport ----
    http,          \* the router: per-IP limiters, the request served last
    \* ---- Search Engine and Result Cache ----
    cache,         \* Redis: key -> bytes
    origin,        \* history: key -> the completed search that wrote the entry
    spc,           \* the request goroutine: position in Execute
    sreq,          \* the request as received / as validated
    prev,          \* the request before it
    sres,          \* what the store returned / the response
    ops,           \* number of statements the free-running store driver issued
    failures       \* number of store / cache statements that failed so far

storeVars  == <<contents, stats, scores, tags, contentTags, now, lastOp>>
syncVars   == <<clients, run, pc, startTime, fetched, idx, cur, hist>>
searchVars == <<cache, origin, spc, sreq, prev, sres>>
vars       == <<storeVars, syncVars, searchVars, adapter, http, ops, failures>>

----------------------------------------------------------------------------
(* Bounds of the model *)

\* how many sync_all runs a behaviour holds
MaxRuns == 2
\* how many store statements of one behaviour may fail
MaxFailures == 1
\* how many statements the free-running store driver issues
MaxOps == 4

(* Program constants *)

DefaultPageSize == 20
MaxPageSize == 50
Day == 86400

Providers == {1, 2}
Kinds == {"video", "article"}
Sorts == {"popularity", "relevance"}

----------------------------------------------------------------------------
(* Strings *)

Lower == {"a", "g", "o", "x"}
Digits == {"0", "1", "2", "3", "4", "5", "6", "7", "8", "9"}

IsSpace(ch) == ch = " "

IsAlnum(ch) == ch \in Lower \/ ch \in {"G", "X"} \/ ch \in Digits

ToLowerCh(ch) == CASE ch = "G" -> "g" [] ch = "X" -> "x" [] OTHER -> ch

ToLower(s) == [i \in 1..Len(s) |-> ToLowerCh(s[i])]

RECURSIVE TrimLeft(_)
TrimLeft(s) == IF s # <<>> /\ IsSpace(Head(s)) THEN TrimLeft(Tail(s)) ELSE s

RECURSIVE TrimRight(_)
TrimRight(s) ==
    IF s # <<>> /\ IsSpace(s[Len(s)]) THEN TrimRight(SubSeq(s, 1, Len(s) - 1)) ELSE s

TrimSpace(s) == TrimRight(TrimLeft(s))

\* strings.Map(cleaner, w): the characters of w the cleaner keeps
Clean(w) == SelectSeq(w, IsAlnum)

\* the maximal runs of the characters of s that are kept, in order (keep[i]
\* tells whether s[i] is kept)
RECURSIVE SplitBy(_, _, _)
SplitBy(s, keep, word) ==
    IF s = <<>> THEN (IF word = <<>> THEN <<>> ELSE <<word>>)
    ELSE IF Head(keep) THEN SplitBy(Tail(s), Tail(keep), Append(word, Head(s)))
    ELSE (IF word = <<>> THEN <<>> ELSE <<word>>) \o SplitBy(Tail(s), Tail(keep), <<>>)

NotSpace(ch) == ~IsSpace(ch)

\* strings.Fields
Fields(s) == SplitBy(s, [i \in DOMAIN s |-> NotSpace(s[i])], <<>>)

IsPrefix(w, l) == Len(w) <= Len(l) /\ SubSeq(l, 1, Len(w)) = w

Range(f) == {f[i] : i \in DOMAIN f}

RECURSIVE Join(_, _)
Join(ss, sep) ==
    IF ss = <<>> THEN <<>>
    ELSE IF Len(ss) = 1 THEN ss[1]
    ELSE ss[1] \o sep \o Join(Tail(ss), sep)

----------------------------------------------------------------------------
(* Content Store: rows *)

\* entity.Content as handed to Upsert
Entity(p, e, title, descr, kind, pub, raw) ==
    [provider |-> p, ext |-> e, title |-> title, description |-> descr,
     kind |-> kind, published |-> pub, raw |-> raw]

NoEntity == Entity(0, <<>>, <<>>, <<>>, "", 0, <<>>)

Ids(c) == 1..Len(c)

\* the rows of contents with the unique key (provider_id, provider_content_id)
KeyIds(c, p, e) == {i \in Ids(c) : c[i].provider = p /\ c[i].ext = e}

\* INSERT ... RETURNING id: the id of the row the statement wrote
UpsertId(c, ent) ==
    IF KeyIds(c, ent.provider, ent.ext) # {}
    THEN CHOOSE i \in KeyIds(c, ent.provider, ent.ext) : TRUE
    ELSE Len(c) + 1

\* a variant of UpsertRows: ON CONFLICT ... DO UPDATE without "deleted = 0"
UpsertRowsKeepDeleted(c, ent, t) ==
    IF KeyIds(c, ent.provider, ent.ext) # {}
    THEN [c EXCEPT ![UpsertId(c, ent)] =
            [@ EXCEPT !.title = ent.title, !.description = ent.description,
                      !.kind = ent.kind, !.published = ent.published,
                      !.raw = ent.raw, !.updated = t]]
    ELSE Append(c, [provider |-> ent.provider, ext |-> ent.ext,
                    title |-> ent.title, description |-> ent.description,
                    kind |-> ent.kind, published |-> ent.published,
                    raw |-> ent.raw, created |-> t, updated |-> t,
                    deleted |-> 0])

\* a variant of UpsertRows: without the BEFORE UPDATE trigger, an update
\* leaves updated_at as it was
UpsertRowsNoTouch(c, ent, t) ==
    IF KeyIds(c, ent.provider, ent.ext) # {}
    THEN [c EXCEPT ![UpsertId(c, ent)] =
            [@ EXCEPT !.title = ent.title, !.description = ent.description,
                      !.kind = ent.kind, !.published = ent.published,
                      !.raw = ent.raw, !.deleted = 0]]
    ELSE Append(c, [provider |-> ent.provider, ext |-> ent.ext,
                    title |-> ent.title, description |-> ent.description,
                    kind |-> ent.kind, published |-> ent.published,
                    raw |-> ent.raw, created |-> t, updated |-> t,
                    deleted |-> 0])

\* INSERT INTO contents ... ON CONFLICT (provider_id, provider_content_id)
\* DO UPDATE SET title, description, content_type, published_at, raw_data,
\* deleted = 0; the BEFORE UPDATE trigger update_contents_updated_at sets
\* updated_at = CURRENT_TIMESTAMP, the column default sets it on insert.
UpsertRows(c, ent, t) ==
    IF KeyIds(c, ent.provider, ent.ext) # {}
    THEN [c EXCEPT ![UpsertId(c, ent)] =
            [@ EXCEPT !.title = ent.title, !.description = ent.description,
                      !.kind = ent.kind, !.published = ent.published,
                      !.raw = ent.raw, !.deleted = 0, !.updated = t]]
    ELSE Append(c, [provider |-> ent.provider, ext |-> ent.ext,
                    title |-> ent.title, description |-> ent.description,
                    kind |-> ent.kind, published |-> ent.published,
                    raw |-> ent.raw, created |-> t, updated |-> t,
                    deleted |-> 0])

\* a variant of StaleIds: "updated_at <= $2" and no provider filter
StaleIdsLoose(c, p, th) ==
    {i \in Ids(c) : c[i].updated <= th /\ c[i].deleted = 0}

\* WHERE provider_id = $1 AND updated_at < $2 AND deleted = 0
StaleIds(c, p, th) ==
    {i \in Ids(c) : c[i].provider = p /\ c[i].updated < th /\ c[i].deleted = 0}

\* UPDATE contents SET deleted = 1, updated_at = CURRENT_TIMESTAMP WHERE ...
MarkStaleRows(c, p, th, t) ==
    [i \in Ids(c) |->
        IF i \in StaleIds(c, p, th)
        THEN [c[i] EXCEPT !.deleted = 1, !.updated = t]
        ELSE c[i]]

\* INSERT INTO content_stats / content_scores ... ON CONFLICT (content_id)
\* DO UPDATE: one row per content_id
PutRow(table, id, row) ==
    [i \in DOMAIN table \cup {id} |-> IF i = id THEN row ELSE table[i]]

\* a variant of TagName: the name stored as it was given
TagNameAsGiven(name) == name

\* the name AddTags stores for a tag
TagName(name) == ToLower(TrimSpace(name))

TagId(tg, name) ==
    IF \E i \in 1..Len(tg) : tg[i] = name
    THEN CHOOSE i \in 1..Len(tg) : tg[i] = name
    ELSE Len(tg) + 1

\* INSERT INTO tags (name) ... ON CONFLICT (name) DO UPDATE ... RETURNING id
TagsWith(tg, name) == IF TagId(tg, name) > Len(tg) THEN Append(tg, name) ELSE tg

\* AddTags: for every name in order, the tag row and the content_tags link;
\* the result is <<tags, content_tags>> after the transaction commits
RECURSIVE AddTagsTx(_, _, _, _)
AddTagsTx(tg, links, id, names) ==
    IF names = <<>> THEN <<tg, links>>
    ELSE AddTagsTx(TagsWith(tg, TagName(Head(names))),
                   links \cup {<<id, TagId(tg, TagName(Head(names)))>>},
                   id, Tail(names))

\* loadTags: the names of the tags linked to a content (ORDER BY t.name is
\* kept as a set: the order is a function of the set)
TagsOf(id) == {tags[l[2]] : l \in {k \in contentTags : k[1] = id}}

NoStats == [views |-> -1, likes |-> -1, readingTime |-> -1, reactions |-> -1]
NoScore == [base |-> -1, weight |-> -1, recency |-> -1, engagement |-> -1,
            final |-> -1]

StatsOf(id) == IF id \in DOMAIN stats THEN stats[id] ELSE NoStats
ScoreOf(id) == IF id \in DOMAIN scores THEN scores[id] ELSE NoScore


\* FindByID: WHERE c.id = $1 AND c.deleted = 0, LEFT JOIN stats and score
FindByID(id) ==
    IF id \in Ids(contents) /\ contents[id].deleted = 0
    THEN [found |-> TRUE, id |-> id, row |-> contents[id],
          stats |-> StatsOf(id), score |-> ScoreOf(id), tags |-> TagsOf(id)]
    ELSE [found |-> FALSE, id |-> id]

----------------------------------------------------------------------------
(* Scoring Engine (CalculateScore); decimals in hundredths *)

VideoTypeWeight == 150
ArticleTypeWeight == 100

RECURSIVE Gcd(_, _)
Gcd(a, b) == IF b = 0 THEN a ELSE Gcd(b, a % b)

\* math.Round(x) of the non-negative rational x = num / den (half away from
\* zero), the fraction reduced first
RoundDiv(num, den) ==
    LET g == Gcd(num, den)
    IN  (2 * (num \div g) + (den \div g)) \div (2 * (den \div g))

\* a variant of RecencyScore: the boundaries exclusive
RecencyScoreExclusive(published, t) ==
    IF t - published < 7 * Day THEN 5
    ELSE IF t - published < 30 * Day THEN 3
    ELSE IF t - published < 90 * Day THEN 1
    ELSE 0

\* calculateRecencyScore
RecencyScore(published, t) ==
    IF t - published <= 7 * Day THEN 5
    ELSE IF t - published <= 30 * Day THEN 3
    ELSE IF t - published <= 90 * Day THEN 1
    ELSE 0

\* a variant of CalculateScore: the final score without the type weight,
\* base + recency + engagement
CalculateScoreUnweighted(kind, st, published, t) ==
    LET video == kind = "video"
        bn == IF video THEN st.views + 10 * st.likes ELSE 100 * st.readingTime + 2 * st.reactions
        bd == IF video THEN 10 ELSE 1
        w  == IF video THEN VideoTypeWeight ELSE ArticleTypeWeight
        rec == RecencyScore(published, t)
        en == IF video THEN (IF st.views = 0 THEN 0 ELSE 1000 * st.likes)
                       ELSE (IF st.readingTime = 0 THEN 0 ELSE 500 * st.reactions)
        ed == IF video THEN (IF st.views = 0 THEN 1 ELSE st.views)
                       ELSE (IF st.readingTime = 0 THEN 1 ELSE st.readingTime)
        gb == Gcd(bn, bd)
        ge == Gcd(en, ed)
        fn == (bn \div gb) * (ed \div ge) + (en \div ge) * (bd \div gb)
        fd == (bd \div gb) * (ed \div ge)
    IN  [base |-> RoundDiv(bn, bd), weight |-> w, recency |-> 100 * rec,
         engagement |-> RoundDiv(en, ed),
         final |-> 100 * rec + RoundDiv(fn, fd)]

\* a variant of CalculateScore: the final score without the engagement,
\* base * weight + recency
CalculateScoreNoEngagement(kind, st, published, t) ==
    LET video == kind = "video"
        bn == IF video THEN st.views + 10 * st.likes ELSE 100 * st.readingTime + 2 * st.reactions
        bd == IF video THEN 10 ELSE 1
        w  == IF video THEN VideoTypeWeight ELSE ArticleTypeWeight
        rec == RecencyScore(published, t)
        en == IF video THEN (IF st.views = 0 THEN 0 ELSE 1000 * st.likes)
                       ELSE (IF st.readingTime = 0 THEN 0 ELSE 500 * st.reactions)
        ed == IF video THEN (IF st.views = 0 THEN 1 ELSE st.views)
                       ELSE (IF st.readingTime = 0 THEN 1 ELSE st.readingTime)
    IN  [base |-> RoundDiv(bn, bd), weight |-> w, recency |-> 100 * rec,
         engagement |-> RoundDiv(en, ed),
         final |-> 100 * rec + RoundDiv(bn * w, 100 * bd)]

\* CalculateScore for a content with statistics, in hundredths:
\* base = bn / bd hundredths, engagement = en / ed hundredths,
\* final = base * weight + recency + engagement, each rounded on its own
CalculateScore(kind, st, published, t) ==
    LET video == kind = "video"
        \* 100 * (views / 1000 + likes / 100), 100 * (reading_time + reactions / 50)
        bn == IF video THEN st.views + 10 * st.likes ELSE 100 * st.readingTime + 2 * st.reactions
        bd == IF video THEN 10 ELSE 1
        w  == IF video THEN VideoTypeWeight ELSE ArticleTypeWeight
        rec == RecencyScore(published, t)
        \* 100 * (likes / views) * 10, 100 * (reactions / reading_time) * 5
        en == IF video THEN (IF st.views = 0 THEN 0 ELSE 1000 * st.likes)
                       ELSE (IF st.readingTime = 0 THEN 0 ELSE 500 * st.reactions)
        ed == IF video THEN (IF st.views = 0 THEN 1 ELSE st.views)
                       ELSE (IF st.readingTime = 0 THEN 1 ELSE st.readingTime)
        gb == Gcd(bn, bd)
        ge == Gcd(en, ed)
        \* base * weight + engagement = fn / fd hundredths
        fn == (bn \div gb) * w * (ed \div ge) + 100 * (en \div ge) * (bd \div gb)
        fd == 100 * (bd \div gb) * (ed \div ge)
    IN  [base |-> RoundDiv(bn, bd), weight |-> w, recency |-> 100 * rec,
         engagement |-> RoundDiv(en, ed),
         final |-> 100 * rec + RoundDiv(fn, fd)]

----------------------------------------------------------------------------
(* Content Store: Search *)

Params(q, kind, sort, page, size) ==
    [query |-> q, kind |-> kind, sort |-> sort, page |-> page, pageSize |-> size]

\* the words of the tsquery: strings.Fields, then the cleaner, empties dropped
FtsWords(query) ==
    SelectSeq([i \in 1..Len(Fields(query)) |-> Clean(Fields(query)[i])],
              LAMBDA w : w # <<>>)

\* to_tsvector: the lexemes of a text (lower-cased alphanumeric runs; the
\* stemming and stop words of the 'english' configuration are not modelled)
LexOf(s) ==
    Range(SplitBy(ToLower(s), [i \in DOMAIN s |-> IsAlnum(ToLower(s)[i])], <<>>))

\* the lexemes of weight A (title) and B (tags) of a content
TitleLex(id) == LexOf(contents[id].title)
TagLex(id) == UNION {LexOf(n) : n \in TagsOf(id)}

\* w:* matches the vector
MatchesWord(id, w) ==
    \E l \in TitleLex(id) \cup TagLex(id) : IsPrefix(ToLower(w), l)

\* a variant of Matching: fromParts without "WHERE c.deleted = 0"
MatchingAnyRow(p) ==
    {i \in Ids(contents) :
        /\ \A k \in 1..Len(FtsWords(p.query)) : MatchesWord(i, FtsWords(p.query)[k])
        /\ p.kind # "" => contents[i].kind = p.kind}

\* the rows of fromParts + whereClause
Matching(p) ==
    {i \in Ids(contents) :
        /\ contents[i].deleted = 0
        /\ \A k \in 1..Len(FtsWords(p.query)) : MatchesWord(i, FtsWords(p.query)[k])
        /\ p.kind # "" => contents[i].kind = p.kind}

\* relevanceExpr: 0.0 without query words; otherwise ts_rank_cd with the
\* weights {D, C, B, A} = {0.1, 0.2, 0.4, 1.0}, kept as the sum over the query
\* words of the weight of the best label matched, in tenths
Relevance(id, p) ==
    LET ws == FtsWords(p.query)
        W(w) == IF \E l \in TitleLex(id) : IsPrefix(ToLower(w), l) THEN 10 ELSE 4
        RECURSIVE Sum(_)
        Sum(k) == IF k = 0 THEN 0 ELSE W(ws[k]) + Sum(k - 1)
    IN  Sum(Len(ws))

\* a variant of SortsBefore: relevance_score DESC whenever the sort asked for
\* is relevance
SortsBeforeAsAsked(i, j, p) ==
    LET byRel == p.sort = "relevance"
        ki == IF byRel THEN Relevance(i, p) ELSE ScoreOf(i).final
        kj == IF byRel THEN Relevance(j, p) ELSE ScoreOf(j).final
    IN  \/ ki > kj
        \/ ki = kj /\ contents[i].published > contents[j].published

\* ORDER BY: row i sorts strictly before row j
SortsBefore(i, j, p) ==
    LET byRel == p.sort = "relevance" /\ FtsWords(p.query) # <<>>
        ki == IF byRel THEN Relevance(i, p) ELSE ScoreOf(i).final
        kj == IF byRel THEN Relevance(j, p) ELSE ScoreOf(j).final
    IN  \/ ki > kj
        \/ ki = kj /\ contents[i].published > contents[j].published

\* the orders the ORDER BY clause allows (ties are in any order)
Orderings(S, p) ==
    {o \in [1..Cardinality(S) -> S] :
        /\ \A a, b \in DOMAIN o : a # b => o[a] # o[b]
        /\ \A a, b \in DOMAIN o : a < b => ~SortsBefore(o[b], o[a], p)}

\* a variant of Window: OFFSET page * pageSize
WindowFromPage(o, p) ==
    LET off == p.page * p.pageSize
        hi == IF off + p.pageSize < Len(o) THEN off + p.pageSize ELSE Len(o)
    IN  SubSeq(o, off + 1, hi)

\* LIMIT pageSize OFFSET (page - 1) * pageSize
Window(o, p) ==
    LET off == (p.page - 1) * p.pageSize
        hi == IF off + p.pageSize < Len(o) THEN off + p.pageSize ELSE Len(o)
    IN  SubSeq(o, off + 1, hi)

\* a row as Search returns it: stats, score (or none), tags and relevance
Item(id, p) ==
    [id |-> id, provider |-> contents[id].provider, ext |-> contents[id].ext,
     title |-> contents[id].title, kind |-> contents[id].kind,
     published |-> contents[id].published,
     stats |-> StatsOf(id), score |-> ScoreOf(id), tags |-> TagsOf(id),
     relevance |-> Relevance(id, p)]

\* what Search may return for the validated parameters p: <<items, total>>
SearchOutcomes(p) ==
    {[items |-> [k \in 1..Len(Window(o, p)) |-> Item(Window(o, p)[k], p)],
      total |-> Cardinality(Matching(p))] : o \in Orderings(Matching(p), p)}

----------------------------------------------------------------------------
(* Inputs: what the providers emit *)

\* the instant the model starts at, and two publication instants
T0 == 100 * Day
Recent == T0 - Day
Old == T0 - 100 * Day

Stats(v, l, rt, re) == [views |-> v, likes |-> l, readingTime |-> rt, reactions |-> re]

\* entity.NormalizedContent
RecA1 == [ext |-> "a", title |-> <<"g", "o">>, description |-> <<>>,
          kind |-> "video", published |-> Recent, stats |-> Stats(3000, 100, 0, 0),
          tags |-> << <<"G", "o">> >>, raw |-> <<"1">>]
RecA2 == [ext |-> "a", title |-> <<"o", "x", " ", "g", "o">>, description |-> <<"x">>,
          kind |-> "article", published |-> Old, stats |-> Stats(0, 0, 5, 100),
          tags |-> << <<" ", "g", "o", " ">>, <<"a">> >>, raw |-> <<"2">>]
RecB1 == [ext |-> "b", title |-> <<"G", "o", "x">>, description |-> <<>>,
          kind |-> "video", published |-> Recent, stats |-> Stats(0, 10, 0, 0),
          tags |-> <<>>, raw |-> <<"3">>]

Records == {RecA1, RecA2, RecB1}

\* processContent step 1: the Content built from a normalized record (RawData
\* is not among the fields it sets)
ContentOf(p, nc) ==
    Entity(p, nc.ext, nc.title, nc.description, nc.kind, nc.published, <<>>)

\* the statement last executed against the store
\* (n alternates, so that two equal statements in a row are two steps; was is
\* the deleted flag of the row an upsert found, -1 when it found none; names
\* is the tag list of an AddTags call)
Op(name, n, p, ent, th, id, ok) ==
    [op |-> name, n |-> n, provider |-> p, ent |-> ent, th |-> th, id |-> id,
     ok |-> ok, names |-> <<>>,
     was |-> IF name = "upsert" /\ ok /\ id \in Ids(contents)
             THEN contents[id].deleted ELSE -1]

NextN == 1 - lastOp.n

----------------------------------------------------------------------------
(* Search Engine: validateParams, generateCacheKey, the JSON of the cache *)

\* a variant of ValidateParams: the page size is not clamped to 50
ValidateParamsNoMax(r) ==
    [r EXCEPT !.page = IF r.page < 1 THEN 1 ELSE r.page,
              !.pageSize = IF r.pageSize < 1 THEN DefaultPageSize ELSE r.pageSize,
              !.sort = IF r.sort = "" THEN "popularity" ELSE r.sort]

\* validateParams: the parameters after its assignments
ValidateParams(r) ==
    [r EXCEPT !.page = IF r.page < 1 THEN 1 ELSE r.page,
              !.pageSize = IF r.pageSize < 1 THEN DefaultPageSize
                           ELSE IF r.pageSize > MaxPageSize THEN MaxPageSize
                           ELSE r.pageSize,
              !.sort = IF r.sort = "" THEN "popularity" ELSE r.sort]

\* a variant of Accepted: the content type is not looked at
AcceptedAnyKind(r) == ValidateParams(r).sort \in Sorts

\* validateParams: it returns nil
Accepted(r) ==
    /\ ValidateParams(r).sort \in Sorts
    /\ r.kind = "" \/ r.kind \in Kinds

\* the characters of the strings a kind or sort of the model can be
Chars(str) ==
    CASE str = "" -> <<>>
      [] str = "audio" -> <<"a", "u", "d", "i", "o">>
      [] str = "newest" -> <<"n", "e", "w", "e", "s", "t">>
      [] str = "video" -> <<"v", "i", "d", "e", "o">>
      [] str = "article" -> <<"a", "r", "t", "i", "c", "l", "e">>
      [] str = "popularity" -> <<"p", "o", "p", "u", "l", "a", "r", "i", "t", "y">>
      [] str = "relevance" -> <<"r", "e", "l", "e", "v", "a", "n", "c", "e">>
      [] str = "search" -> <<"s", "e", "a", "r", "c", "h">>

DigitCh(d) == <<"0", "1", "2", "3", "4", "5", "6", "7", "8", "9">>[d + 1]

\* %d of a non-negative integer
RECURSIVE Itoa(_)
Itoa(n) == IF n < 10 THEN <<DigitCh(n)>> ELSE Itoa(n \div 10) \o <<DigitCh(n % 10)>>

\* a variant of KeyString: the page is not part of the key
KeyStringNoPage(p) ==
    Chars("search") \o <<":">> \o p.query \o <<":">> \o Chars(p.kind) \o <<":">>
        \o Chars(p.sort) \o <<":">> \o Itoa(p.pageSize)

\* fmt.Sprintf("search:%s:%s:%s:%d:%d", Query, ContentType, SortBy, Page, PageSize)
KeyString(p) ==
    Chars("search") \o <<":">> \o p.query \o <<":">> \o Chars(p.kind) \o <<":">>
        \o Chars(p.sort) \o <<":">> \o Itoa(p.page) \o <<":">> \o Itoa(p.pageSize)

\* generateCacheKey: "search:" followed by the MD5 digest of the key string.
\* The digest is kept as the string it digests: MD5 is taken to be free of
\* collisions on the inputs of the model.
GenerateCacheKey(p) == <<"search:", KeyString(p)>>

\* the fields of an item that encoding/json omits when empty (omitempty)
OmitEmpty == {"stats", "score", "tags", "relevance"}
ItemFields == {"id", "provider", "ext", "title", "kind", "published"} \cup OmitEmpty

ZeroOf(f) ==
    CASE f = "stats" -> NoStats
      [] f = "score" -> NoScore
      [] f = "tags" -> {}
      [] f = "relevance" -> 0

IsZero(f, v) ==
    CASE f = "stats" -> v = NoStats
      [] f = "score" -> v = NoScore
      [] f = "tags" -> v = {}
      [] f = "relevance" -> v = 0

\* json.Marshal of one item: the fields present in the object
MarshalItem(it) ==
    [f \in {g \in ItemFields : g \in OmitEmpty => ~IsZero(g, it[g])} |-> it[f]]

\* a variant of UnmarshalItem: the tags of an item are not decoded
UnmarshalItemNoTags(js) ==
    [f \in ItemFields |-> IF f \in DOMAIN js /\ f # "tags" THEN js[f] ELSE ZeroOf(f)]

\* json.Unmarshal of one item: absent fields keep their zero value
UnmarshalItem(js) ==
    [f \in ItemFields |-> IF f \in DOMAIN js THEN js[f] ELSE ZeroOf(f)]

\* json.Marshal / json.Unmarshal of a SearchResult
Marshal(res) ==
    [items |-> [k \in DOMAIN res.items |-> MarshalItem(res.items[k])],
     pagination |-> res.pagination]

Unmarshal(bytes) ==
    [items |-> [k \in DOMAIN bytes.items |-> UnmarshalItem(bytes.items[k])],
     pagination |-> bytes.pagination]

\* a variant of TotalPages: integer division without rounding up
TotalPagesFloor(total, size) == total \div size

\* (total + PageSize - 1) / PageSize
TotalPages(total, size) == (total + size - 1) \div size

\* Execute step 5: the SearchResult built from what the store returned
Envelope(p, out) ==
    [items |-> out.items,
     pagination |-> [page |-> p.page, pageSize |-> p.pageSize,
                     totalItems |-> out.total,
                     totalPages |-> TotalPages(out.total, p.pageSize)]]

----------------------------------------------------------------------------
(* Initial state: an empty store, no sync run, an empty cache *)

NoParams == Params(<<>>, "", "", 0, 1)
NoOutcome == [items |-> <<>>, total |-> 0]
NoResult == Envelope(NoParams, NoOutcome)

NoRequest == [raw |-> NoParams, params |-> NoParams, key |-> <<>>]
NoResponse == [status |-> "none", result |-> NoResult, hit |-> FALSE, repo |-> FALSE,
               asked |-> NoParams]

StoreInit ==
    /\ contents = <<>>
    /\ stats = <<>>
    /\ scores = <<>>
    /\ tags = <<>>
    /\ contentTags = {}
    /\ now = T0
    /\ lastOp = Op("none", 0, 0, NoEntity, 0, 0, TRUE)

SyncIdle ==
    /\ run = [n |-> 0, phase |-> "idle", clears |-> 0, result |-> "none"]
    /\ pc = [p \in Providers |-> "idle"]
    /\ startTime = [p \in Providers |-> 0]
    /\ fetched = [p \in Providers |-> <<>>]
    /\ idx = [p \in Providers |-> 0]
    /\ cur = [p \in Providers |-> 0]
    /\ hist = [p \in Providers |-> <<>>]

\* no FetchContents call is in progress (ctx is the context passed to the
\* call, at the position the call had when the context was cancelled; yield is
\* the number of records the page read last added, -1 before the first page)
AdapterIdle ==
    [format |-> "json", pc |-> "idle", page |-> 1, totalPages |-> 1, i |-> 0,
     resp |-> [err |-> FALSE, status |-> 0, body |-> <<>>],
     all |-> <<>>, trace |-> <<>>, calls |-> 0,
     ctx |-> "live", at |-> "", yield |-> -1,
     out |-> [status |-> "none", records |-> <<>>]]

\* no request has been routed and no limiter exists: limiters is the map of
\* RateLimiter (ip -> tokens left), the rest describes the request served last
HttpIdle ==
    [limiters |-> <<>>, n |-> 0, method |-> "", path |-> "", ip |-> 0,
     limited |-> FALSE, had |-> -1, handler |-> "none", status |-> 0,
     retryAfter |-> 0]

SearchInit ==
    /\ adapter = AdapterIdle
    /\ http = HttpIdle
    /\ cache = <<>>
    /\ origin = <<>>
    /\ spc = "idle"
    /\ sreq = NoRequest
    /\ prev = NoRequest
    /\ sres = NoResponse

----------------------------------------------------------------------------
(* Content Store: the statements, each one atomic step *)

\* Upsert succeeded: the row is written and content.ID is set
StUpsert(ent) ==
    /\ contents' = UpsertRows(contents, ent, now)
    /\ now' = now + 1
    /\ lastOp' = Op("upsert", NextN, ent.provider, ent, 0, UpsertId(contents, ent), TRUE)
    /\ UNCHANGED <<stats, scores, tags, contentTags>>

\* CreateOrUpdateStats succeeded
StStats(id, st) ==
    /\ stats' = PutRow(stats, id, st)
    /\ lastOp' = Op("stats", NextN, 0, NoEntity, 0, id, TRUE)
    /\ UNCHANGED <<contents, scores, tags, contentTags, now>>

\* CreateOrUpdateScore succeeded
StScore(id, sc) ==
    /\ scores' = PutRow(scores, id, sc)
    /\ lastOp' = Op("score", NextN, 0, NoEntity, 0, id, TRUE)
    /\ UNCHANGED <<contents, stats, tags, contentTags, now>>

\* AddTags committed
StAddTags(id, names) ==
    /\ tags' = AddTagsTx(tags, contentTags, id, names)[1]
    /\ contentTags' = AddTagsTx(tags, contentTags, id, names)[2]
    /\ lastOp' = [Op("tags", NextN, 0, NoEntity, 0, id, TRUE) EXCEPT !.names = names]
    /\ UNCHANGED <<contents, stats, scores, now>>

\* MarkStaleContentsAsDeleted succeeded
StSweep(p, th) ==
    /\ contents' = MarkStaleRows(contents, p, th, now)
    /\ now' = now + 1
    /\ lastOp' = Op("sweep", NextN, p, NoEntity, th, 0, TRUE)
    /\ UNCHANGED <<stats, scores, tags, contentTags>>

\* a statement returned an error: nothing is written (AddTags rolls back)
StFail(name, p, id) ==
    /\ failures < MaxFailures
    /\ failures' = failures + 1
    /\ lastOp' = Op(name, NextN, p, NoEntity, 0, id, FALSE)
    /\ UNCHANGED <<contents, stats, scores, tags, contentTags, now>>

----------------------------------------------------------------------------
(* The store under a free-running caller: any sequence of statements *)

\* the parameter sets the caller searches with (validated)
StoreParams ==
    {Params(<<>>, "", "popularity", 1, DefaultPageSize),
     Params(<<>>, "", "popularity", 2, 1),
     Params(<<>>, "video", "relevance", 1, DefaultPageSize),
     Params(<<"g">>, "", "relevance", 1, DefaultPageSize),
     Params(<<"G", "o", "!">>, "", "popularity", 1, 1),
     Params(<<"!">>, "article", "relevance", 1, DefaultPageSize),
     Params(<<"o", " ", "g">>, "", "relevance", 1, DefaultPageSize),
     Params(<<"g">>, "video", "popularity", 2, 1)}

DUpsert ==
    /\ ops < MaxOps
    /\ \E p \in Providers, r \in Records :
          StUpsert([ContentOf(p, r) EXCEPT !.raw = r.raw])
    /\ ops' = ops + 1
    /\ UNCHANGED <<syncVars, searchVars, adapter, http, failures>>

DStats ==
    /\ ops < MaxOps
    /\ \E id \in Ids(contents), r \in Records :
          r.ext = contents[id].ext /\ StStats(id, r.stats)
    /\ ops' = ops + 1
    /\ UNCHANGED <<syncVars, searchVars, adapter, http, failures>>

DScore ==
    /\ ops < MaxOps
    /\ \E id \in DOMAIN stats :
          StScore(id, CalculateScore(contents[id].kind, stats[id],
                                     contents[id].published, now))
    /\ ops' = ops + 1
    /\ UNCHANGED <<syncVars, searchVars, adapter, http, failures>>

DAddTags ==
    /\ ops < MaxOps
    /\ \E id \in Ids(contents), r \in Records :
          r.ext = contents[id].ext /\ r.tags # <<>> /\ StAddTags(id, r.tags)
    /\ ops' = ops + 1
    /\ UNCHANGED <<syncVars, searchVars, adapter, http, failures>>

\* tag lists that spell names of the records in another case, with other
\* whitespace, in another order, twice, or with a blank name
TagVariants ==
    { << <<"g", "o">> >>,
      << <<"a">>, <<"G", "o", " ">> >>,
      << <<" ">>, <<"g", "o">>, <<"G", "o">> >> }

\* AddTags called with such a list
DAddTagsAgain ==
    /\ ops < MaxOps
    /\ \E id \in Ids(contents), names \in TagVariants : StAddTags(id, names)
    /\ ops' = ops + 1
    /\ UNCHANGED <<syncVars, searchVars, adapter, http, failures>>

DSweep ==
    /\ ops < MaxOps
    /\ \E p \in Providers, th \in {contents[i].updated : i \in Ids(contents)} \cup {now} :
          StSweep(p, th)
    /\ ops' = ops + 1
    /\ UNCHANGED <<syncVars, searchVars, adapter, http, failures>>

\* the caller ends with a read: FindByID or Search
DFind ==
    /\ ops <= MaxOps
    /\ ops' = MaxOps + 1
    /\ \E id \in 1..(Len(contents) + 1) :
          lastOp' = Op("find", NextN, 0, NoEntity, 0, id, FindByID(id).found)
    /\ UNCHANGED <<contents, stats, scores, tags, contentTags, now>>
    /\ UNCHANGED <<syncVars, searchVars, adapter, http, failures>>

DSearch ==
    /\ ops <= MaxOps
    /\ ops' = MaxOps + 1
    /\ \E p \in StoreParams : \E out \in SearchOutcomes(p) :
          /\ sreq' = [raw |-> p, params |-> p, key |-> <<>>]
          /\ sres' = [status |-> "store", result |-> Envelope(p, out),
                      hit |-> FALSE, repo |-> TRUE, asked |-> p]
    /\ lastOp' = Op("search", NextN, 0, NoEntity, 0, 0, TRUE)
    /\ UNCHANGED <<contents, stats, scores, tags, contentTags, now>>
    /\ UNCHANGED <<syncVars, adapter, http, cache, origin, spc, prev, failures>>

InitStore ==
    /\ StoreInit
    /\ SyncIdle
    /\ clients = {}
    /\ SearchInit
    /\ ops = 0
    /\ failures = 0

NextStore ==
    DUpsert \/ DStats \/ DScore \/ DAddTags \/ DAddTagsAgain \/ DSweep \/ DFind \/ DSearch

SpecStore == InitStore /\ [][NextStore]_vars

----------------------------------------------------------------------------
(* Claims about the Content Store, checked under SpecStore *)

\* a store statement was executed in this step
Executed(name) == lastOp'.n # lastOp.n /\ lastOp'.op = name /\ lastOp'.ok

KeyUnique ==
    \A i, j \in Ids(contents) :
        contents[i].provider = contents[j].provider /\ contents[i].ext = contents[j].ext
            => i = j

UpsertEffect ==
    LET ent == lastOp'.ent
        id == lastOp'.id
        old == KeyIds(contents, ent.provider, ent.ext)
    IN  /\ old # {} => id \in old /\ Len(contents') = Len(contents)
        /\ old = {} => id = Len(contents) + 1 /\ Len(contents') = Len(contents) + 1
        /\ contents'[id].provider = ent.provider /\ contents'[id].ext = ent.ext
        /\ contents'[id].title = ent.title
        /\ contents'[id].description = ent.description
        /\ contents'[id].kind = ent.kind
        /\ contents'[id].published = ent.published
        /\ contents'[id].raw = ent.raw
        /\ contents'[id].deleted = 0
        /\ \A i \in Ids(contents) \ {id} : contents'[i] = contents[i]

\* C6: there is exactly one row per (provider_id, external_id) whatever the
\* order of the upserts; an upsert of an existing key returns the id the key
\* already had, leaves the mutable fields of the row equal to its input and
\* sets deleted = 0 (also on a soft-deleted row); an upsert of a new key adds
\* one row; no other row changes.
C6_UpsertKeyed == [](KeyUnique) /\ [][Executed("upsert") => UpsertEffect]_vars

\* C6 witness: an upsert has just hit a soft-deleted row, which is live again
\* with the fields of the input
C6_Witness ==
    /\ lastOp.op = "upsert" /\ lastOp.was = 1
    /\ contents[lastOp.id].deleted = 0
    /\ contents[lastOp.id].title = lastOp.ent.title
    /\ Len(contents) >= 2

SweepEffect ==
    LET p == lastOp'.provider
        th == lastOp'.th
    IN  /\ Len(contents') = Len(contents)
        /\ \A i \in Ids(contents) :
              IF contents[i].provider = p /\ contents[i].deleted = 0
                    /\ contents[i].updated < th
              THEN /\ contents'[i].deleted = 1
                   /\ [contents'[i] EXCEPT !.deleted = 0, !.updated = 0]
                        = [contents[i] EXCEPT !.deleted = 0, !.updated = 0]
              ELSE contents'[i] = contents[i]
        /\ stats' = stats /\ scores' = scores
        /\ tags' = tags /\ contentTags' = contentTags

\* C7: mark_stale_deleted(provider, threshold) sets deleted = 1 on exactly the
\* live rows of that provider with updated_at < threshold; every other row
\* (another provider's, updated_at >= threshold, already deleted) and every
\* stats, score, tag and content_tags row is unchanged.
C7_SweepFrame == [][Executed("sweep") => SweepEffect]_vars

\* C7 witness: a sweep has just deleted a row of the provider and kept another
\* row of that provider whose updated_at equals the threshold, with statistics
\* in the store
C7_Witness ==
    /\ lastOp.op = "sweep"
    /\ \E i, j \in Ids(contents) :
          /\ contents[i].provider = lastOp.provider /\ contents[i].deleted = 1
          /\ contents[i].updated = now - 1
          /\ contents[j].provider = lastOp.provider /\ contents[j].deleted = 0
          /\ contents[j].updated = lastOp.th
    /\ DOMAIN stats # {}

\* C2: a store search returns no row with deleted = 1, for any query, kind,
\* sort and page, and FindByID of a soft-deleted row finds nothing (in
\* SpecStore a read is the caller's last statement, so the store is the one
\* the read saw).
C2_NoDeletedRowRead ==
    /\ lastOp.op = "search" =>
          \A k \in DOMAIN sres.result.items :
              /\ sres.result.items[k].id \in Ids(contents)
              /\ contents[sres.result.items[k].id].deleted = 0
    /\ lastOp.op = "find" /\ lastOp.id \in Ids(contents)
          /\ contents[lastOp.id].deleted = 1 => ~lastOp.ok

\* C2 witness: a search has returned a live row while a soft-deleted row that
\* matches its query and kind is in the store
C2_Witness ==
    /\ lastOp.op = "search"
    /\ sres.result.items # <<>>
    /\ \E i \in MatchingAnyRow(sreq.params) : contents[i].deleted = 1

----------------------------------------------------------------------------
(* Sync Orchestrator: Execute, one goroutine per provider client running
   syncProvider and processContent, then the cache clear.  Runs follow one
   another, as the scheduler's loop issues them; each store statement is one
   atomic step and the goroutines of a run interleave freely. *)

\* what FetchContents of a provider can return in the n-th run
Feeds(p, n) ==
    IF p = 1
    THEN IF n = 1 THEN {<<RecA1, RecB1>>, <<RecB1>>}
                  ELSE {<<RecA2>>, <<>>}
    ELSE IF n = 1 THEN {<<RecA1>>} ELSE {<<>>}

LiveExts(c, p) == {c[i].ext : i \in {j \in Ids(c) : c[j].provider = p /\ c[j].deleted = 0}}

\* what a run has done for a provider so far: the external ids live when the
\* run started, the outcome of the fetch, the external ids whose upsert
\* succeeded, the statements that returned an error, the outcome of the sweep
NoHist == [before |-> {}, fetch |-> "none", upserted |-> {}, errs |-> 0, sweep |-> "none"]

\* the goroutines that have returned
Returned == {"done", "failed"}

\* a variant of WaitDone: the wait is over when any goroutine has returned
WaitAny == clients = {} \/ \E p \in clients : pc[p] \in Returned

\* wg.Wait() returns: every goroutine of the run has called wg.Done
WaitDone == \A p \in clients : pc[p] \in Returned

\* a variant of AfterFetchError: the error of one provider ends every goroutine
AbortAll(pcs, p) == [q \in Providers |-> IF q \in clients THEN "failed" ELSE pcs[q]]

\* a variant of AfterFetchError: the goroutine goes on to the stale sweep
SweepAfterError(pcs, p) == [pcs EXCEPT ![p] = "sweep"]

\* syncProvider returns the fetch error to its own goroutine, which logs it
AfterFetchError(pcs, p) == [pcs EXCEPT ![p] = "failed"]

\* a variant of SweepThreshold: the instant of the sweep itself
SweepThresholdNow(p) == now

\* the threshold syncProvider passes to MarkStaleContentsAsDeleted
SweepThreshold(p) == startTime[p]

\* the record processContent is working on
Rec(p) == fetched[p][idx[p]]

\* the loop over normalized: the next record, or the sweep after the last
NextPc(p) == IF idx[p] < Len(fetched[p]) THEN "upsert" ELSE "sweep"

Advance(p) ==
    /\ idx' = [idx EXCEPT ![p] = idx[p] + 1]
    /\ pc' = [pc EXCEPT ![p] = NextPc(p)]

SyncFrame == UNCHANGED <<clients, searchVars, adapter, http, ops>>

\* Execute starts: one goroutine per provider client
SyncStart ==
    /\ run.phase \in {"idle", "returned"}
    /\ run.n < MaxRuns
    /\ run' = [n |-> run.n + 1, phase |-> "running", clears |-> 0, result |-> "none"]
    /\ pc' = [p \in Providers |-> IF p \in clients THEN "start" ELSE "idle"]
    /\ startTime' = [p \in Providers |-> 0]
    /\ fetched' = [p \in Providers |-> <<>>]
    /\ idx' = [p \in Providers |-> 0]
    /\ cur' = [p \in Providers |-> 0]
    /\ hist' = [p \in Providers |-> [NoHist EXCEPT !.before = LiveExts(contents, p)]]
    /\ UNCHANGED <<storeVars, failures>>
    /\ SyncFrame

\* syncProvider: startTime := time.Now()
ProviderBegin(p) ==
    /\ pc[p] = "start"
    /\ startTime' = [startTime EXCEPT ![p] = now]
    /\ now' = now + 1
    /\ pc' = [pc EXCEPT ![p] = "fetch"]
    /\ UNCHANGED <<contents, stats, scores, tags, contentTags, lastOp>>
    /\ UNCHANGED <<run, fetched, idx, cur, hist, failures>>
    /\ SyncFrame

\* FetchContents returned the records
FetchOk(p) ==
    /\ pc[p] = "fetch"
    /\ \E f \in Feeds(p, run.n) :
          /\ fetched' = [fetched EXCEPT ![p] = f]
          /\ pc' = [pc EXCEPT ![p] = IF f = <<>> THEN "sweep" ELSE "upsert"]
    /\ idx' = [idx EXCEPT ![p] = 1]
    /\ hist' = [hist EXCEPT ![p].fetch = "ok"]
    /\ UNCHANGED <<storeVars, run, startTime, cur, failures>>
    /\ SyncFrame

\* FetchContents returned an error: syncProvider returns before any write
FetchError(p) ==
    /\ pc[p] = "fetch"
    /\ pc' = AfterFetchError(pc, p)
    /\ hist' = [hist EXCEPT ![p].fetch = "error"]
    /\ UNCHANGED <<storeVars, run, startTime, fetched, idx, cur, failures>>
    /\ SyncFrame

\* a variant of PcUpsert: the id is handed on and the row is not written
PcUpsertDeferred(p) ==
    /\ pc[p] = "upsert"
    /\ lastOp' = Op("upsert", NextN, p, ContentOf(p, Rec(p)), 0,
                    UpsertId(contents, ContentOf(p, Rec(p))), TRUE)
    /\ now' = now + 1
    /\ cur' = [cur EXCEPT ![p] = UpsertId(contents, ContentOf(p, Rec(p)))]
    /\ hist' = [hist EXCEPT ![p].upserted = @ \cup {Rec(p).ext}]
    /\ pc' = [pc EXCEPT ![p] = "stats"]
    /\ UNCHANGED <<contents, stats, scores, tags, contentTags>>
    /\ UNCHANGED <<run, startTime, fetched, idx, failures>>
    /\ SyncFrame

\* processContent step 2: Upsert succeeded, content.ID is the row's id
PcUpsert(p) ==
    /\ pc[p] = "upsert"
    /\ StUpsert(ContentOf(p, Rec(p)))
    /\ cur' = [cur EXCEPT ![p] = UpsertId(contents, ContentOf(p, Rec(p)))]
    /\ hist' = [hist EXCEPT ![p].upserted = @ \cup {Rec(p).ext}]
    /\ pc' = [pc EXCEPT ![p] = "stats"]
    /\ UNCHANGED <<run, startTime, fetched, idx, failures>>
    /\ SyncFrame

\* processContent step 3: CreateOrUpdateStats succeeded
PcStats(p) ==
    /\ pc[p] = "stats"
    /\ StStats(cur[p], Rec(p).stats)
    /\ pc' = [pc EXCEPT ![p] = "score"]
    /\ UNCHANGED <<run, startTime, fetched, idx, cur, hist, failures>>
    /\ SyncFrame

\* processContent step 4: CalculateScore and CreateOrUpdateScore succeeded;
\* step 5 follows when the record has tags
PcScore(p) ==
    /\ pc[p] = "score"
    /\ StScore(cur[p], CalculateScore(Rec(p).kind, Rec(p).stats, Rec(p).published, now))
    /\ IF Rec(p).tags # <<>>
       THEN pc' = [pc EXCEPT ![p] = "tags"] /\ idx' = idx
       ELSE Advance(p)
    /\ UNCHANGED <<run, startTime, fetched, cur, hist, failures>>
    /\ SyncFrame

\* a variant of PcTags: the loop goes on without the AddTags call
PcTagsSkipped(p) ==
    /\ pc[p] = "tags"
    /\ Advance(p)
    /\ UNCHANGED <<storeVars, run, startTime, fetched, cur, hist, failures>>
    /\ SyncFrame

\* processContent step 5: AddTags committed
PcTags(p) ==
    /\ pc[p] = "tags"
    /\ StAddTags(cur[p], Rec(p).tags)
    /\ Advance(p)
    /\ UNCHANGED <<run, startTime, fetched, cur, hist, failures>>
    /\ SyncFrame

\* a variant of PcFail: the error of processContent ends syncProvider
PcFailAborts(p) ==
    /\ pc[p] \in {"upsert", "stats", "score", "tags"}
    /\ StFail(pc[p], p, IF pc[p] = "upsert" THEN 0 ELSE cur[p])
    /\ pc' = [pc EXCEPT ![p] = "done"]
    /\ hist' = [hist EXCEPT ![p].errs = @ + 1]
    /\ UNCHANGED <<run, startTime, fetched, idx, cur>>
    /\ SyncFrame

\* a statement of processContent returned an error: the record is logged and
\* skipped (an AddTags error is logged inside processContent); the loop goes on
PcFail(p) ==
    /\ pc[p] \in {"upsert", "stats", "score", "tags"}
    /\ StFail(pc[p], p, IF pc[p] = "upsert" THEN 0 ELSE cur[p])
    /\ Advance(p)
    /\ hist' = [hist EXCEPT ![p].errs = @ + 1]
    /\ UNCHANGED <<run, startTime, fetched, cur>>
    /\ SyncFrame

\* syncProvider step 3: MarkStaleContentsAsDeleted succeeded; syncProvider returns
PcSweep(p) ==
    /\ pc[p] = "sweep"
    /\ StSweep(p, SweepThreshold(p))
    /\ hist' = [hist EXCEPT ![p].sweep = "ok"]
    /\ pc' = [pc EXCEPT ![p] = "done"]
    /\ UNCHANGED <<run, startTime, fetched, idx, cur, failures>>
    /\ SyncFrame

\* MarkStaleContentsAsDeleted returned an error: logged; syncProvider returns nil
PcSweepFail(p) ==
    /\ pc[p] = "sweep"
    /\ StFail("sweep", p, 0)
    /\ hist' = [hist EXCEPT ![p].sweep = "failed", ![p].errs = @ + 1]
    /\ pc' = [pc EXCEPT ![p] = "done"]
    /\ UNCHANGED <<run, startTime, fetched, idx, cur>>
    /\ SyncFrame

\* after wg.Wait(): cache.Clear succeeded; Execute returns nil
SyncClear ==
    /\ run.phase = "running"
    /\ WaitDone
    /\ cache' = <<>>
    /\ origin' = <<>>
    /\ run' = [run EXCEPT !.phase = "returned", !.clears = @ + 1, !.result = "nil"]
    /\ UNCHANGED <<storeVars, adapter, http, clients, pc, startTime, fetched, idx, cur, hist>>
    /\ UNCHANGED <<spc, sreq, prev, sres, ops, failures>>

\* cache.Clear returned an error: logged; Execute returns nil
SyncClearFail ==
    /\ run.phase = "running"
    /\ WaitDone
    /\ failures < MaxFailures
    /\ failures' = failures + 1
    /\ run' = [run EXCEPT !.phase = "returned", !.clears = @ + 1, !.result = "nil"]
    /\ UNCHANGED <<storeVars, adapter, http, clients, pc, startTime, fetched, idx, cur, hist>>
    /\ UNCHANGED <<searchVars, ops>>

\* the provider clients main hands to the use case: none, one or two
Init ==
    /\ StoreInit
    /\ SyncIdle
    /\ clients \in {{}, {1}, {1, 2}}
    /\ SearchInit
    /\ ops = 0
    /\ failures = 0

Next ==
    \/ SyncStart
    \/ \E p \in clients : ProviderBegin(p)
    \/ \E p \in clients : FetchOk(p)
    \/ \E p \in clients : FetchError(p)
    \/ \E p \in clients : PcUpsert(p)
    \/ \E p \in clients : PcStats(p)
    \/ \E p \in clients : PcScore(p)
    \/ \E p \in clients : PcTags(p)
    \/ \E p \in clients : PcFail(p)
    \/ \E p \in clients : PcSweep(p)
    \/ \E p \in clients : PcSweepFail(p)
    \/ SyncClear
    \/ SyncClearFail

Spec == Init /\ [][Next]_vars

----------------------------------------------------------------------------
(* Claims about the Sync Orchestrator, checked under Spec *)

\* the external ids of the records a provider's fetch returned
FetchedExts(p) == {fetched[p][k].ext : k \in DOMAIN fetched[p]}

IsLive(p, e) == \E i \in KeyIds(contents, p, e) : contents[i].deleted = 0
IsSoftDeleted(p, e) == \E i \in KeyIds(contents, p, e) : contents[i].deleted = 1

\* C1 as written: after a run in which P's fetch returned S, every (P, e) with
\* e not in S that was live before the run is soft-deleted and every (P, e)
\* with e in S is live.
C1_AsWritten ==
    run.phase = "returned" =>
        \A p \in clients : hist[p].fetch = "ok" =>
            /\ \A e \in hist[p].before \ FetchedExts(p) : IsSoftDeleted(p, e)
            /\ \A e \in FetchedExts(p) : IsLive(p, e)

\* C1 (amended): after a run in which P's fetch returned S, every (P, e) whose
\* upsert succeeded in the run is live; if P's stale sweep succeeded, every
\* (P, e) that was live before the run and has e not in S is soft-deleted, and
\* so is every (P, e) with e in S that was live before and whose upsert failed;
\* if the sweep failed, the rows the run did not upsert are as they were.
C1_SyncSweep ==
    run.phase = "returned" =>
        \A p \in clients : hist[p].fetch = "ok" =>
            /\ \A e \in hist[p].upserted : e \in FetchedExts(p) /\ IsLive(p, e)
            /\ hist[p].sweep = "ok" =>
                  \A e \in hist[p].before \ hist[p].upserted : IsSoftDeleted(p, e)
            /\ hist[p].sweep = "failed" =>
                  \A e \in hist[p].before : IsLive(p, e)
            /\ hist[p].errs = 0 =>
                  hist[p].upserted = FetchedExts(p) /\ hist[p].sweep = "ok"

\* C1 witness: a second run has returned in which one provider's sweep
\* soft-deleted a row missing from its feed and kept the row it upserted, and
\* the other provider's empty feed left all its rows soft-deleted
C1_Witness ==
    /\ run.phase = "returned" /\ run.n = 2
    /\ \E p, q \in clients :
          /\ hist[p].fetch = "ok" /\ hist[p].sweep = "ok"
          /\ hist[p].upserted # {}
          /\ hist[p].before \ FetchedExts(p) # {}
          /\ \A e \in hist[p].before \ FetchedExts(p) : IsSoftDeleted(p, e)
          /\ hist[q].fetch = "ok" /\ fetched[q] = <<>> /\ hist[q].sweep = "ok"
          /\ hist[q].before # {}
          /\ \A e \in hist[q].before : IsSoftDeleted(q, e)

\* C4: in every run the cache clear is issued exactly once, and only after
\* every provider's goroutine of the run has returned (so after all its
\* record writes and its sweep), whether providers failed, succeeded or none
\* is configured; nothing is written to the store between the clear and the
\* next run.
C4_ClearOnceAfterAll ==
    /\ [](/\ run.clears <= 1
          /\ run.clears = 1 => \A p \in clients : pc[p] \in Returned
          /\ run.phase = "returned" <=> run.clears = 1)
    /\ [][run.clears = 1 /\ run'.n = run.n => UNCHANGED storeVars]_vars

\* C4 witness: a run with one failed and one successful provider has returned
\* after its single clear
C4_Witness ==
    /\ run.phase = "returned" /\ run.clears = 1
    /\ clients = {1, 2}
    /\ hist[1].fetch = "error" /\ pc[1] = "failed"
    /\ hist[2].sweep = "ok" /\ pc[2] = "done"

\* C5: when a provider's fetch returned an error in a run, the run still
\* returns nil, and every provider whose own fetch did not fail has gone
\* through its records and its sweep: those of its records whose statements
\* returned no error are upserted after the run's start and live, and its
\* sweep was issued.
C5_FetchFailureIsolated ==
    run.phase = "returned" /\ (\E p \in clients : hist[p].fetch = "error") =>
        /\ run.result = "nil"
        /\ \A q \in clients : hist[q].fetch # "error" =>
              /\ hist[q].fetch = "ok" /\ pc[q] = "done"
              /\ hist[q].sweep # "none"
              /\ hist[q].errs = 0 =>
                    /\ hist[q].sweep = "ok"
                    /\ \A e \in FetchedExts(q) :
                          \E i \in KeyIds(contents, q, e) :
                              contents[i].deleted = 0 /\ contents[i].updated > startTime[q]
                    /\ \A e \in hist[q].before \ FetchedExts(q) : IsSoftDeleted(q, e)

\* C5 witness: a run has returned nil in which provider 1's fetch failed and
\* provider 2's record was upserted and its sweep done
C5_Witness ==
    /\ run.phase = "returned" /\ run.result = "nil"
    /\ hist[1].fetch = "error"
    /\ 2 \in clients /\ hist[2].fetch = "ok" /\ hist[2].upserted # {}
    /\ hist[2].sweep = "ok"
    /\ IsLive(2, "a")

----------------------------------------------------------------------------
(* Search Engine: SearchContentsUseCase.Execute over the Result Cache and the
   Content Store, one request at a time, while a sync run writes to the store
   and clears the cache and entries expire. *)

\* bound: requests and store writes in one behaviour
MaxEvents == 4

\* the store after one run of provider 1 with the feed <<RecA1, RecB1>>
SeedContents ==
    UpsertRows(UpsertRows(<<>>, ContentOf(1, RecA1), T0 + 1), ContentOf(1, RecB1), T0 + 2)
SeedStats == PutRow(PutRow(<<>>, 1, RecA1.stats), 2, RecB1.stats)
SeedScores ==
    PutRow(PutRow(<<>>, 1, CalculateScore(RecA1.kind, RecA1.stats, RecA1.published, T0 + 2)),
           2, CalculateScore(RecB1.kind, RecB1.stats, RecB1.published, T0 + 3))
SeedTags == AddTagsTx(<<>>, {}, 1, RecA1.tags)

\* the parameters the handler passes to Execute
RawParams ==
    {Params(<<>>, "", "", 0, 0),
     Params(<<>>, "", "popularity", 1, DefaultPageSize),
     Params(<<"g">>, "", "relevance", 2, 1),
     Params(<<>>, "video", "popularity", 3, 100),
     Params(<<"g", "o">>, "", "relevance", -1, 51),
     Params(<<>>, "", "newest", 1, 1),
     Params(<<>>, "audio", "", 1, 1)}

\* Execute steps 1 and 2: the validated parameters and their cache key
Request(r) ==
    [raw |-> r, params |-> ValidateParams(r), key |-> GenerateCacheKey(ValidateParams(r))]

CachePut(f, k, v) == [x \in DOMAIN f \cup {k} |-> IF x = k THEN v ELSE f[x]]
CacheDel(f, k) == [x \in DOMAIN f \ {k} |-> f[x]]

SearchFrame == UNCHANGED <<syncVars, adapter, http>>

\* Execute is called with parameters validateParams accepts
SearchBegin(r) ==
    /\ spc = "idle"
    /\ ops < MaxEvents
    /\ Accepted(r)
    /\ prev' = sreq
    /\ sreq' = Request(r)
    /\ sres' = NoResponse
    /\ spc' = "get"
    /\ ops' = ops + 1
    /\ UNCHANGED <<storeVars, cache, origin, failures>>
    /\ SearchFrame

\* validateParams returns an error: Execute returns it
SearchReject(r) ==
    /\ spc = "idle"
    /\ ops < MaxEvents
    /\ ~Accepted(r)
    /\ sreq' = [raw |-> r, params |-> NoParams, key |-> <<>>]
    /\ sres' = [NoResponse EXCEPT !.status = "invalid"]
    /\ ops' = ops + 1
    /\ UNCHANGED <<storeVars, cache, origin, spc, prev, failures>>
    /\ SearchFrame

\* step 3: cache.Get returned the bytes, which json.Unmarshal decodes (the
\* entries under a search key are the ones step 6 wrote)
CacheHit ==
    /\ spc = "get"
    /\ sreq.key \in DOMAIN cache
    /\ sres' = [status |-> "ok", result |-> Unmarshal(cache[sreq.key]),
                hit |-> TRUE, repo |-> FALSE, asked |-> NoParams]
    /\ spc' = "idle"
    /\ UNCHANGED <<storeVars, cache, origin, sreq, prev, ops, failures>>
    /\ SearchFrame

\* step 3: cache.Get returned redis.Nil
CacheMiss ==
    /\ spc = "get"
    /\ sreq.key \notin DOMAIN cache
    /\ spc' = "search"
    /\ UNCHANGED <<storeVars, cache, origin, sreq, prev, sres, ops, failures>>
    /\ SearchFrame

\* a variant of CacheGetFail: the error of cache.Get is returned to the caller
CacheGetFailReturned ==
    /\ spc = "get"
    /\ failures < MaxFailures
    /\ failures' = failures + 1
    /\ sres' = [NoResponse EXCEPT !.status = "error"]
    /\ spc' = "idle"
    /\ UNCHANGED <<storeVars, cache, origin, sreq, prev, ops>>
    /\ SearchFrame

\* step 3: cache.Get returned another error: Execute goes on to the store
CacheGetFail ==
    /\ spc = "get"
    /\ failures < MaxFailures
    /\ failures' = failures + 1
    /\ spc' = "search"
    /\ UNCHANGED <<storeVars, cache, origin, sreq, prev, sres, ops>>
    /\ SearchFrame

\* step 4, the first statement of contentRepo.Search: SELECT COUNT(*) gave
\* the total; the page is not read yet
StoreCount ==
    /\ spc = "search"
    /\ sres' = [status |-> "counted",
                result |-> Envelope(sreq.params,
                                    [items |-> <<>>,
                                     total |-> Cardinality(Matching(sreq.params))]),
                hit |-> FALSE, repo |-> TRUE, asked |-> sreq.params]
    /\ spc' = "rows"
    /\ UNCHANGED <<storeVars, cache, origin, sreq, prev, ops, failures>>
    /\ SearchFrame

\* step 4, the second statement of contentRepo.Search (on the pool, outside
\* a transaction): the page of rows as the store is now; Search returns the
\* rows with the total counted before, and step 5 builds the SearchResult
StoreRows ==
    /\ spc = "rows"
    /\ \E out \in SearchOutcomes(sreq.params) :
          sres' = [sres EXCEPT
                     !.status = "found",
                     !.result = Envelope(sreq.params,
                                         [items |-> out.items,
                                          total |-> sres.result.pagination.totalItems])]
    /\ lastOp' = Op("search", NextN, 0, NoEntity, 0, 0, TRUE)
    /\ spc' = "set"
    /\ UNCHANGED <<contents, stats, scores, tags, contentTags, now>>
    /\ UNCHANGED <<cache, origin, sreq, prev, ops, failures>>
    /\ SearchFrame

\* step 4: contentRepo.Search returned an error (of the count or of the
\* rows query): Execute returns it
StoreSearchFail ==
    /\ spc \in {"search", "rows"}
    /\ StFail("search", 0, 0)
    /\ sres' = [NoResponse EXCEPT !.status = "error", !.repo = TRUE,
                                  !.asked = sreq.params]
    /\ spc' = "idle"
    /\ UNCHANGED <<cache, origin, sreq, prev, ops>>
    /\ SearchFrame

\* step 6: cache.Set stored the marshalled result; Execute returns the result
CacheSet ==
    /\ spc = "set"
    /\ cache' = CachePut(cache, sreq.key, Marshal(sres.result))
    /\ origin' = CachePut(origin, sreq.key, sres.result)
    /\ sres' = [sres EXCEPT !.status = "ok"]
    /\ spc' = "idle"
    /\ UNCHANGED <<storeVars, sreq, prev, ops, failures>>
    /\ SearchFrame

\* step 6: cache.Set returned an error, which is dropped
CacheSetFail ==
    /\ spc = "set"
    /\ failures < MaxFailures
    /\ failures' = failures + 1
    /\ sres' = [sres EXCEPT !.status = "ok"]
    /\ spc' = "idle"
    /\ UNCHANGED <<storeVars, cache, origin, sreq, prev, ops>>
    /\ SearchFrame

\* an entry reaches its TTL
CacheExpire(k) ==
    /\ k \in DOMAIN cache
    /\ cache' = CacheDel(cache, k)
    /\ origin' = CacheDel(origin, k)
    /\ UNCHANGED <<storeVars, spc, sreq, prev, sres, ops, failures>>
    /\ SearchFrame

\* the sync run at work meanwhile: its cache.Clear
SsClear ==
    /\ DOMAIN cache # {}
    /\ cache' = <<>>
    /\ origin' = <<>>
    /\ UNCHANGED <<storeVars, spc, sreq, prev, sres, ops, failures>>
    /\ SearchFrame

\* the sync run at work meanwhile: an upsert of provider 1's record
SsUpsert ==
    /\ ops < MaxEvents
    /\ StUpsert(ContentOf(1, RecA2))
    /\ ops' = ops + 1
    /\ UNCHANGED <<searchVars, failures>>
    /\ SearchFrame

\* the sync run at work meanwhile: provider 1's sweep
SsSweep ==
    /\ ops < MaxEvents
    /\ StSweep(1, now)
    /\ ops' = ops + 1
    /\ UNCHANGED <<searchVars, failures>>
    /\ SearchFrame

InitSearch ==
    /\ contents = SeedContents
    /\ stats = SeedStats
    /\ scores = SeedScores
    /\ tags = SeedTags[1]
    /\ contentTags = SeedTags[2]
    /\ now = T0 + 4
    /\ lastOp = Op("none", 0, 0, NoEntity, 0, 0, TRUE)
    /\ SyncIdle
    /\ clients = {1}
    /\ SearchInit
    /\ ops = 0
    /\ failures = 0

NextSearch ==
    \/ \E r \in RawParams : SearchBegin(r)
    \/ \E r \in RawParams : SearchReject(r)
    \/ CacheHit
    \/ CacheMiss
    \/ CacheGetFail
    \/ StoreCount
    \/ StoreRows
    \/ StoreSearchFail
    \/ CacheSet
    \/ CacheSetFail
    \/ \E k \in DOMAIN cache : CacheExpire(k)
    \/ SsClear
    \/ SsUpsert
    \/ SsSweep

SpecSearch == InitSearch /\ [][NextSearch]_vars

----------------------------------------------------------------------------
(* Claims about the Search Engine, checked under SpecSearch *)

\* the request leaves step 3 (the cache lookup) in this step
LeavesLookup == spc = "get" /\ spc' # "get"

\* the request is served from the cache: the response is the result the
\* earlier search returned, and the store is not asked
ServedFromCache ==
    /\ spc' = "idle" /\ sres'.status = "ok"
    /\ sres'.hit /\ ~sres'.repo
    /\ sres'.result = origin[sreq.key]

\* C3 as written: when an earlier search with the same validated parameters
\* has completed and its result is still in the cache, the later search
\* returns an equal result and the store's search is not invoked.
C3_AsWritten ==
    [][LeavesLookup /\ sreq.key \in DOMAIN origin => ServedFromCache]_vars

\* C3 (amended): when an earlier search with the same validated parameters has
\* completed and its result is still in the cache, a later search whose cache
\* read succeeds returns an equal result without the store's search being
\* invoked; a later search whose cache read fails asks the store.  The cache
\* holds exactly the results of completed searches not cleared or expired.
C3_CacheHitServes ==
    /\ [](/\ DOMAIN cache = DOMAIN origin
          /\ \A k \in DOMAIN cache : cache[k] = Marshal(origin[k]))
    /\ [][LeavesLookup /\ sreq.key \in DOMAIN origin =>
            IF failures' = failures THEN ServedFromCache ELSE spc' = "search"]_vars

\* C3 witness: a search answered from the cache with a result that has items
\* with tags, for a request other than the one that stored it, after the store
\* has changed
C3_Witness ==
    /\ spc = "idle" /\ sres.status = "ok" /\ sres.hit /\ ~sres.repo
    /\ sreq.key \in DOMAIN origin /\ sres.result = origin[sreq.key]
    /\ \E k \in DOMAIN sres.result.items : sres.result.items[k].tags # {}
    /\ prev.key = sreq.key /\ prev.raw # sreq.raw
    /\ now > T0 + 4

\* ceil(total / size), stated without the division
IsCeilOf(tp, total, size) == tp * size >= total /\ (tp - 1) * size < total

\* C9 as written: every envelope has total_pages = ceil(total_items /
\* page_size), and page <= total_pages whenever total_items > 0.
C9_AsWritten ==
    sres.status = "ok" =>
        LET pg == sres.result.pagination
        IN  /\ IsCeilOf(pg.totalPages, pg.totalItems, pg.pageSize)
            /\ pg.totalItems > 0 => pg.page <= pg.totalPages

\* C9 (amended): every envelope has total_pages = ceil(total_items /
\* page_size), so total_pages >= 1 exactly when total_items > 0; page and
\* page_size are the validated ones of the request, and page is not clamped to
\* total_pages: a page past the last one is answered with that page number.
C9_Pagination ==
    sres.status = "ok" =>
        LET pg == sres.result.pagination
        IN  /\ IsCeilOf(pg.totalPages, pg.totalItems, pg.pageSize)
            /\ pg.totalPages >= 1 <=> pg.totalItems > 0
            /\ pg.page = sreq.params.page /\ pg.pageSize = sreq.params.pageSize
            /\ pg.page >= 1

\* C9 witness: a response from the store whose total is not a multiple of the
\* page size, for a page past the last one
C9_Witness ==
    /\ sres.status = "ok" /\ sres.repo
    /\ sres.result.pagination.totalItems > 0
    /\ sres.result.pagination.totalItems % sres.result.pagination.pageSize # 0
    /\ sres.result.pagination.page > sres.result.pagination.totalPages

----------------------------------------------------------------------------
(* Cache keys: validateParams and generateCacheKey applied to one request
   after another *)

\* the parameters the keys are generated for: queries with and without the
\* separator of the key string, pages and sizes below, inside and above range
KeyInputs ==
    {Params(q, k, o, pg, sz) :
        q \in {<<>>, <<"a">>, <<"a", ":">>, <<":", "v", "i", "d", "e", "o">>},
        k \in {"", "video"},
        o \in {"", "popularity", "relevance"},
        pg \in {0, 1, 2, 12},
        sz \in {0, 1, 20, MaxPageSize, 100}}

\* Execute steps 1 and 2 for the parameters r (of the first two requests)
KeyOf(r) ==
    /\ prev = NoRequest
    /\ Accepted(r)
    /\ prev' = sreq
    /\ sreq' = Request(r)
    /\ UNCHANGED <<storeVars, syncVars, adapter, http, cache, origin, spc, sres, ops, failures>>

NextKey == \E r \in KeyInputs : KeyOf(r)

SpecKey == InitStore /\ [][NextKey]_vars

\* C8: two parameter sets get the same cache key if and only if their
\* validated (query, kind, sort, page, page_size) are the same (MD5 taken as
\* free of collisions).
C8_KeyCoherent ==
    sreq # NoRequest /\ prev # NoRequest =>
        (sreq.key = prev.key <=>
            /\ sreq.params.query = prev.params.query
            /\ sreq.params.kind = prev.params.kind
            /\ sreq.params.sort = prev.params.sort
            /\ sreq.params.page = prev.params.page
            /\ sreq.params.pageSize = prev.params.pageSize)

\* C8 witness: page sizes 100 and 50, pages 0 and 1, an empty and a given sort
\* have produced one key
C8_Witness ==
    /\ prev.raw.pageSize = 100 /\ sreq.raw.pageSize = MaxPageSize
    /\ prev.raw.page = 0 /\ sreq.raw.page = 1
    /\ prev.raw.sort = "" /\ sreq.raw.sort = "popularity"
    /\ prev.raw.query = <<"a", ":">> /\ sreq.raw.query = <<"a", ":">>
    /\ prev.key = sreq.key

----------------------------------------------------------------------------
(* Claims about validation, checked under SpecSearch *)

\* Execute is called in this step (the other steps that count an event are
\* store statements)
RequestStep == spc = "idle" /\ ops' # ops /\ lastOp' = lastOp

BadSort(r) == r.sort # "" /\ r.sort \notin {"popularity", "relevance"}
BadKind(r) == r.kind # "" /\ r.kind \notin {"video", "article"}

----------------------------------------------------------------------------
(* Provider Adapter: FetchContents of the JSON and the XML provider *)

\* maxRetries := 3
MaxRetries == 3

\* len(allNormalized) >= 1000
SafetyLimit == 1000

\* a date as it stands in a provider document: the layout it is written in
\* and the instant it denotes
WireDate(layout, t) == [layout |-> layout, t |-> t]

\* time.Parse(layout, value); on an error the zero time.Time, which lies
\* before every instant of the model
ParseTime(layout, d) ==
    IF d.layout = layout THEN [ok |-> TRUE, t |-> d.t] ELSE [ok |-> FALSE, t |-> -1]

\* JSONContent / XMLItem: an item of a provider document
WireItem(id, title, type, date, st, tg) ==
    [id |-> id, title |-> title, type |-> type, date |-> date, stats |-> st,
     tags |-> tg]

\* json.Marshal(raw) / xml.Marshal(raw): the item's fields written out again
MarshalRaw(raw) ==
    <<raw.id, raw.title, raw.type, raw.date, raw.stats, raw.tags>>

Dropped == [ok |-> FALSE]

\* entity.NormalizedContent built by normalize
Normalized(raw, kind, pub, rawData) ==
    [ok |-> TRUE,
     rec |-> [ext |-> raw.id, title |-> raw.title, description |-> <<>>,
              kind |-> kind, published |-> pub, stats |-> raw.stats,
              tags |-> raw.tags, raw |-> rawData]]

\* switch raw.Type, shared by the two normalize functions
NormalizeType(raw, pub, rawData) ==
    IF raw.type \in {"video", "article"}
    THEN Normalized(raw, raw.type, pub, rawData)
    ELSE Dropped

\* jsonProvider.normalize: RFC3339 date, then the type
JsonNormalize(raw, rawData) ==
    IF ~ParseTime("rfc3339", raw.date).ok THEN Dropped
    ELSE NormalizeType(raw, ParseTime("rfc3339", raw.date).t, rawData)

\* xmlProvider.normalize: the ID, then an RFC3339 or a YYYY-MM-DD date, then
\* the type
XmlNormalize(raw, rawData) ==
    IF raw.id = "" THEN Dropped
    ELSE IF ParseTime("rfc3339", raw.date).ok
         THEN NormalizeType(raw, ParseTime("rfc3339", raw.date).t, rawData)
    ELSE IF ParseTime("ymd", raw.date).ok
         THEN NormalizeType(raw, ParseTime("ymd", raw.date).t, rawData)
    ELSE Dropped

Normalize(format, raw) ==
    IF format = "json" THEN JsonNormalize(raw, MarshalRaw(raw))
                       ELSE XmlNormalize(raw, MarshalRaw(raw))

\* for _, raw := range response.Contents: the records appended to all
NormalizePage(format, all, items) ==
    LET Keeps(raw) == Normalize(format, raw).ok
        kept == SelectSeq(items, Keeps)
    IN all \o [k \in 1..Len(kept) |-> Normalize(format, kept[k]).rec]

\* items of provider documents
ItemA == WireItem("a", <<"g", "o">>, "video", WireDate("rfc3339", Recent),
                  Stats(3000, 100, 0, 0), << <<"G", "o">> >>)
ItemB == WireItem("b", <<"G", "o", "x">>, "article", WireDate("ymd", Old),
                  Stats(0, 0, 5, 100), <<>>)
ItemNoId == WireItem("", <<"x">>, "video", WireDate("rfc3339", Recent),
                     Stats(0, 10, 0, 0), <<>>)
ItemBadType == WireItem("c", <<"x">>, "podcast", WireDate("rfc3339", Recent),
                        Stats(0, 0, 0, 0), <<>>)
ItemBadDate == WireItem("d", <<"x">>, "video", WireDate("none", -1),
                        Stats(0, 0, 0, 0), <<>>)

\* JSONResponse / XMLResponse: a document that parses
Document(total, perPage, items) ==
    [parses |-> TRUE, total |-> total, perPage |-> perPage, items |-> items]

\* a body json.Unmarshal / xml.Unmarshal rejects
Garbage == [parses |-> FALSE, total |-> 0, perPage |-> 0, items |-> <<>>]

\* the documents a provider answers with
Documents ==
    { Document(3, 2, <<ItemA, ItemNoId>>),
      Document(3, 2, <<ItemBadType, ItemB, ItemBadDate>>),
      Document(3, 2, <<>>),
      Document(0, 0, <<>>),
      Document(2000, 600, [k \in 1..600 |-> ItemA]) }

\* what http.Get gives: a transport error, a status other than 200, or 200
\* with a body
Response(err, status, body) == [err |-> err, status |-> status, body |-> body]

Failing == {Response(TRUE, 0, Garbage), Response(FALSE, 500, Garbage)}

\* return nil, err / return allNormalized, nil
ReturnError(a) ==
    [a EXCEPT !.pc = "done", !.out = [status |-> "error", records |-> <<>>]]

ReturnOk(a, all) ==
    [a EXCEPT !.pc = "done", !.all = all,
              !.out = [status |-> "ok", records |-> all]]

FetchFrame == UNCHANGED <<storeVars, syncVars, searchVars, http, ops>>

\* FetchContents is called: page := 1; totalPages := 1
FetchCall ==
    /\ adapter.pc = "idle"
    /\ adapter' = [adapter EXCEPT !.pc = "limiter", !.calls = 1]
    /\ UNCHANGED failures
    /\ FetchFrame

\* the context of the call is cancelled while the call is running
Cancel ==
    /\ adapter.pc \notin {"idle", "done"}
    /\ adapter.ctx = "live"
    /\ adapter' = [adapter EXCEPT !.ctx = "done", !.at = adapter.pc]
    /\ UNCHANGED failures
    /\ FetchFrame

\* p.limiter.Wait(ctx) lets the page through; i := 0
LimiterWait ==
    /\ adapter.pc = "limiter"
    /\ adapter.ctx = "live"
    /\ adapter' = [adapter EXCEPT !.pc = "get", !.i = 0, !.trace = <<>>]
    /\ UNCHANGED failures
    /\ FetchFrame

\* p.limiter.Wait(ctx) fails: the context is done
LimiterFail ==
    /\ adapter.pc = "limiter"
    /\ adapter.ctx = "done"
    /\ adapter' = ReturnError([adapter EXCEPT !.trace = <<>>])
    /\ UNCHANGED failures
    /\ FetchFrame

\* http.Get answers 200: break
AttemptOk ==
    /\ adapter.pc = "get"
    /\ \E b \in Documents \cup {Garbage} :
          adapter' = [adapter EXCEPT !.pc = "read",
                                     !.resp = Response(FALSE, 200, b),
                                     !.trace = Append(@, <<"attempt">>)]
    /\ UNCHANGED failures
    /\ FetchFrame

\* http.Get fails or answers another status
AttemptFail ==
    /\ adapter.pc = "get"
    /\ \E r \in Failing :
          adapter' = [adapter EXCEPT !.pc = "sleep", !.resp = r,
                                     !.trace = Append(@, <<"attempt">>)]
    /\ UNCHANGED failures
    /\ FetchFrame

\* time.Sleep(time.Second * time.Duration(i+1)); i++
Backoff ==
    /\ adapter.pc = "sleep"
    /\ adapter' = [adapter EXCEPT
                     !.pc = IF adapter.i + 1 < MaxRetries THEN "get" ELSE "after",
                     !.i = @ + 1,
                     !.trace = Append(@, <<"sleep", adapter.i + 1>>)]
    /\ UNCHANGED failures
    /\ FetchFrame

\* the checks after the retry loop: err != nil, StatusCode != 200
GiveUp ==
    /\ adapter.pc = "after"
    /\ adapter' = ReturnError(adapter)
    /\ UNCHANGED failures
    /\ FetchFrame

\* json.Unmarshal / xml.Unmarshal fails
ParseFail ==
    /\ adapter.pc = "read"
    /\ ~adapter.resp.body.parses
    /\ adapter' = ReturnError(adapter)
    /\ UNCHANGED failures
    /\ FetchFrame

\* totalPages after the first page
PagesOf(a, doc) ==
    IF a.page = 1 /\ doc.perPage > 0
    THEN (doc.total + doc.perPage - 1) \div doc.perPage
    ELSE a.totalPages

\* the page is parsed: totalPages, the break, normalize, page++
PageRead ==
    /\ adapter.pc = "read"
    /\ adapter.resp.body.parses
    /\ LET doc == adapter.resp.body
           tp == PagesOf(adapter, doc)
           all == NormalizePage(adapter.format, adapter.all, doc.items)
       IN adapter' =
            IF Len(adapter.all) >= doc.total \/ Len(adapter.all) >= SafetyLimit
            THEN ReturnOk([adapter EXCEPT !.totalPages = tp], adapter.all)
            ELSE IF adapter.page + 1 <= tp
                 THEN [adapter EXCEPT !.totalPages = tp, !.all = all,
                                      !.yield = Len(all) - Len(adapter.all),
                                      !.page = @ + 1, !.pc = "limiter"]
                 ELSE ReturnOk([adapter EXCEPT !.totalPages = tp,
                                               !.yield = Len(all) - Len(adapter.all),
                                               !.page = @ + 1], all)
    /\ UNCHANGED failures
    /\ FetchFrame

InitFetch ==
    /\ StoreInit
    /\ SyncIdle
    /\ clients = {}
    /\ cache = <<>> /\ origin = <<>> /\ spc = "idle"
    /\ sreq = NoRequest /\ prev = NoRequest /\ sres = NoResponse
    /\ adapter \in {[AdapterIdle EXCEPT !.format = f] : f \in {"json", "xml"}}
    /\ http = HttpIdle
    /\ ops = 0
    /\ failures = 0

NextFetch ==
    \/ FetchCall
    \/ Cancel
    \/ LimiterWait
    \/ LimiterFail
    \/ AttemptOk
    \/ AttemptFail
    \/ Backoff
    \/ GiveUp
    \/ ParseFail
    \/ PageRead

SpecFetch == InitFetch /\ [][NextFetch]_vars

----------------------------------------------------------------------------
(* Provider Adapter: the claims *)

\* the call gave up on a page: it ended after an attempt that failed
GaveUp == adapter.pc = "done" /\ adapter.resp \in Failing

Attempts(trace) == Cardinality({k \in 1..Len(trace) : trace[k] = <<"attempt">>})

\* C12, as the claim states it: for a page whose every attempt fails the
\* adapter does exactly attempt, wait 1s, attempt, wait 2s, attempt and then
\* fails the run with an error and no records; no page is attempted more
\* than 3 times.
C12_AsWritten ==
    /\ Attempts(adapter.trace) <= 3
    /\ GaveUp =>
          /\ adapter.trace = << <<"attempt">>, <<"sleep", 1>>, <<"attempt">>,
                                <<"sleep", 2>>, <<"attempt">> >>
          /\ adapter.out = [status |-> "error", records |-> <<>>]

\* C13, as the claim states it: FetchContents never returns more than 1,000
\* records, whatever total and per_page the provider reports.
C13_AsWritten ==
    adapter.pc = "done" => Len(adapter.out.records) <= SafetyLimit

\* C14, as the claim states it: every record FetchContents returns, from the
\* JSON and from the XML adapter, has a non-empty external id, a kind of
\* video or article and a parsed publication instant.
C14_AsWritten ==
    adapter.pc = "done" =>
        \A k \in 1..Len(adapter.out.records) :
            /\ adapter.out.records[k].ext # ""
            /\ adapter.out.records[k].kind \in Kinds
            /\ adapter.out.records[k].published >= 0

----------------------------------------------------------------------------
(* Sync Orchestrator: what a synced record leaves in the store *)

\* C15, as the claim states it: once a record is synced (its upsert has
\* succeeded), the raw payload of the stored content equals the raw payload
\* of the normalized record.
C15_AsWritten ==
    \A p \in clients :
        pc[p] = "stats" => contents[cur[p]].raw = Rec(p).raw

----------------------------------------------------------------------------
(* Sync Orchestrator: runs over a provider state that does not change *)

\* a record that is 7 days old a moment after the model starts
RecEdge == [ext |-> "e", title |-> <<"g", "o">>, description |-> <<>>,
            kind |-> "video", published |-> T0 - 7 * Day + 3,
            stats |-> Stats(3000, 100, 0, 0), tags |-> <<>>, raw |-> <<"4">>]

\* what FetchContents of a provider returns, the same in every run
SteadyFeed(p) == IF p = 1 THEN <<RecEdge, RecB1>> ELSE <<RecA1>>

\* FetchContents returned the records
FetchSteady(p) ==
    /\ pc[p] = "fetch"
    /\ fetched' = [fetched EXCEPT ![p] = SteadyFeed(p)]
    /\ pc' = [pc EXCEPT ![p] = "upsert"]
    /\ idx' = [idx EXCEPT ![p] = 1]
    /\ hist' = [hist EXCEPT ![p].fetch = "ok"]
    /\ UNCHANGED <<storeVars, run, startTime, cur, failures>>
    /\ SyncFrame

NextRerun ==
    \/ SyncStart
    \/ \E p \in clients : ProviderBegin(p)
    \/ \E p \in clients : FetchSteady(p)
    \/ \E p \in clients : FetchError(p)
    \/ \E p \in clients : PcUpsert(p)
    \/ \E p \in clients : PcStats(p)
    \/ \E p \in clients : PcScore(p)
    \/ \E p \in clients : PcTags(p)
    \/ \E p \in clients : PcFail(p)
    \/ \E p \in clients : PcSweep(p)
    \/ \E p \in clients : PcSweepFail(p)
    \/ SyncClear
    \/ SyncClearFail

SpecRerun == Init /\ [][NextRerun]_vars

\* an earlier run has written the provider's records: each is a live row
\* with a score
Synced(p) ==
    \A k \in DOMAIN SteadyFeed(p) :
        /\ KeyIds(contents, p, SteadyFeed(p)[k].ext) # {}
        /\ \A i \in KeyIds(contents, p, SteadyFeed(p)[k].ext) :
              contents[i].deleted = 0 /\ i \in DOMAIN scores

\* a step of a later run over the synced provider state, no statement of
\* any run having failed
RerunStep ==
    /\ run.n >= 2 /\ run'.n = run.n
    /\ failures' = 0
    /\ \A p \in clients : Synced(p)

DeletedKept ==
    /\ Len(contents') = Len(contents)
    /\ \A i \in Ids(contents) : contents'[i].deleted = contents[i].deleted

----------------------------------------------------------------------------
(* Content Store: AddTags called again *)

\* the names of the tags linked to a content, in given tables
NamesLinked(tg, links, id) == {tg[l[2]] : l \in {k \in links : k[1] = id}}

\* two names that differ in case and surrounding whitespace only
SameName(a, b) == ToLower(TrimSpace(a)) = ToLower(TrimSpace(b))

\* every name of the list is, up to case and whitespace, a tag of the content
AllLinked(tg, links, id, names) ==
    \A k \in DOMAIN names :
        \E t \in NamesLinked(tg, links, id) : SameName(names[k], t)

\* C17: AddTags is idempotent. After AddTags(c, T) every name of T is a tag
\* of c and stays one for ever; an AddTags(c, T') whose names are, up to case
\* and whitespace, tags of c already, as they are after a call with the same
\* names, leaves the tag rows and the links unchanged.
C17_AddTagsIdempotent ==
    /\ [][Executed("tags") =>
            /\ AllLinked(tags', contentTags', lastOp'.id, lastOp'.names)
            /\ AllLinked(tags, contentTags, lastOp'.id, lastOp'.names)
                  => tags' = tags /\ contentTags' = contentTags]_vars
    /\ [][\A id \in Ids(contents) :
            NamesLinked(tags, contentTags, id)
                \subseteq NamesLinked(tags', contentTags', id)]_vars

\* the third statement is AddTags(1, <<" go ", "a">>) after the second was
\* AddTags(1, <<"a", "Go ">>), the only call that creates tag a before tag go
C17_Witness ==
    /\ lastOp.op = "tags" /\ lastOp.ok
    /\ lastOp.names = RecA2.tags
    /\ ops = 3
    /\ Len(contents) = 1
    /\ tags = << <<"a">>, <<"g", "o">> >>
    /\ contentTags = {<<1, 1>>, <<1, 2>>}

----------------------------------------------------------------------------
(* Content Store: what Search returns, by sort order *)

\* the live rows that have, for every word of the query, a title or tag word
\* the query word is a prefix of, and that are of the kind asked for
LiveMatches(p) ==
    {i \in Ids(contents) :
        /\ contents[i].deleted = 0
        /\ p.kind # "" => contents[i].kind = p.kind
        /\ \A k \in DOMAIN FtsWords(p.query) :
              \E l \in TitleLex(i) \cup TagLex(i) :
                  IsPrefix(ToLower(FtsWords(p.query)[k]), l)}

\* row i must come before row j: a higher final score, a score against none,
\* or, these being equal, a later publication
MorePopular(i, j) ==
    \/ i \in DOMAIN scores /\ j \notin DOMAIN scores
    \/ i \in DOMAIN scores /\ j \in DOMAIN scores /\ scores[i].final > scores[j].final
    \/ /\ \/ i \notin DOMAIN scores /\ j \notin DOMAIN scores
          \/ i \in DOMAIN scores /\ j \in DOMAIN scores
                /\ scores[i].final = scores[j].final
       /\ contents[i].published > contents[j].published

\* the rows of S in an order by popularity
PopularityOrders(S) ==
    {o \in [1..Cardinality(S) -> S] :
        /\ \A a, b \in DOMAIN o : a # b => o[a] # o[b]
        /\ \A a, b \in DOMAIN o : a < b => ~MorePopular(o[b], o[a])}

ReturnedIds == [k \in DOMAIN sres.result.items |-> sres.result.items[k].id]

\* the rows of positions (page - 1) * pageSize + 1 .. page * pageSize of o
PageOf(o, p) ==
    SubSeq(o, (p.page - 1) * p.pageSize + 1,
           IF p.page * p.pageSize < Len(o) THEN p.page * p.pageSize ELSE Len(o))

----------------------------------------------------------------------------
(* HTTP transport: HandleSearch *)

\* http.StatusOK, http.StatusInternalServerError
StatusOK == 200
StatusInternalServerError == 500

\* Execute has returned to the handler
ExecuteReturned == spc = "idle" /\ sres.status \in {"ok", "invalid", "error"}

\* the status HandleSearch writes: respondError(w, 500, ...) when Execute
\* returned an error, whichever it is, respondJSON(w, 200, result) otherwise
HandleSearch(res) ==
    IF res.status \in {"invalid", "error"} THEN StatusInternalServerError
                                           ELSE StatusOK

\* C20, as the claim states it: GET /api/v1/search answers 400 when the
\* validation of the parameters fails and 500 only when the store fails.
C20_AsWritten ==
    ExecuteReturned =>
        /\ sres.status = "invalid" => HandleSearch(sres) = 400
        /\ HandleSearch(sres) = 500 => sres.status = "error"

----------------------------------------------------------------------------
(* Scoring Engine: CalculateScore over bounded inputs *)

\* the statistics, kinds and ages the scoring is applied to
ScoreStats ==
    {Stats(v, l, rt, re) : v \in {0, 56, 150000}, l \in {0, 17, 5000},
                           rt \in {0, 5}, re \in {0, 100}}
ScoreAges == {5 * Day, 7 * Day, 7 * Day + 1, 30 * Day, 30 * Day + 1,
              90 * Day, 90 * Day + 1}

\* a variant of CalculateScoreOrNil: statistics without views count as absent
CalculateScoreNeedsViews(kind, st, published, t) ==
    IF st = NoStats \/ st.views = 0 THEN NoScore
    ELSE CalculateScore(kind, st, published, t)

\* CalculateScore as the service exposes it: (nil, nil) when content.Stats is
\* nil, the score otherwise; NoScore stands for the nil score
CalculateScoreOrNil(kind, st, published, t) ==
    IF st = NoStats THEN NoScore
    ELSE CalculateScore(kind, st, published, t)

\* the content being scored and what the service returns for it at time.Now()
Scored == CalculateScoreOrNil(contents[1].kind, StatsOf(1), contents[1].published, now)

\* the service returned a score, which the caller stores
ScoreSave ==
    /\ lastOp.op = "none"
    /\ Scored # NoScore
    /\ StScore(1, Scored)
    /\ UNCHANGED <<syncVars, searchVars, adapter, http, clients, ops, failures>>

\* the service returned (nil, nil): nothing is stored
ScoreNil ==
    /\ lastOp.op = "none"
    /\ Scored = NoScore
    /\ lastOp' = Op("noscore", NextN, 0, NoEntity, 0, 1, TRUE)
    /\ UNCHANGED <<contents, stats, scores, tags, contentTags, now>>
    /\ UNCHANGED <<syncVars, searchVars, adapter, http, clients, ops, failures>>

\* one content of either kind and any age, with or without statistics
InitScore ==
    /\ \E kind \in Kinds, age \in ScoreAges :
          contents = UpsertRows(<<>>, Entity(1, <<"a">>, <<"G", "o">>, <<>>, kind,
                                             T0 - age, <<>>), T0)
    /\ \E st \in ScoreStats \cup {NoStats} :
          stats = IF st = NoStats THEN <<>> ELSE PutRow(<<>>, 1, st)
    /\ scores = <<>>
    /\ tags = <<>>
    /\ contentTags = {}
    /\ now = T0
    /\ lastOp = Op("none", 0, 0, NoEntity, 0, 0, TRUE)
    /\ SyncIdle
    /\ clients = {}
    /\ SearchInit
    /\ ops = 0
    /\ failures = 0

NextScore ==
    \/ ScoreSave
    \/ ScoreNil

SpecScore == InitScore /\ [][NextScore]_vars

\* the content has been scored and the score stored
ScoreStored == lastOp.op = "score" /\ 1 \in DOMAIN scores

\* the age of the content at scoring time
AgeAtScoring == now - contents[1].published

\* the video of the worked example: 150000 views, 5000 likes, 5 days old
HotVideo ==
    /\ ScoreStored
    /\ contents[1].kind = "video"
    /\ stats[1].views = 150000
    /\ stats[1].likes = 5000
    /\ AgeAtScoring = 5 * Day

Abs(x) == IF x < 0 THEN -x ELSE x

\* |final - (base * type_weight + recency + engagement)| over the stored
\* values, in ten-thousandths
ScoreGap(sc) ==
    Abs(100 * sc.final - (sc.base * sc.weight + 100 * sc.recency + 100 * sc.engagement))

\* C23, as the claim states it: for every stored score the final score is
\* within 0.01 of base * type_weight + recency + engagement taken over the
\* stored, rounded, values.
C23_AsWritten ==
    \A id \in DOMAIN scores : ScoreGap(scores[id]) <= 100

\* C23, amended: the final score is rounded from the unrounded terms, so for
\* every stored score it is within 0.01 + 0.005 * type_weight of the sum over
\* the stored values (0.0175 for a video of weight 1.5), and within 0.01 for
\* an article, whose base is a whole number of hundredths.
C23_FinalWithinRounding ==
    \A id \in DOMAIN scores :
        /\ ScoreGap(scores[id]) <= 100 + scores[id].weight \div 2
        /\ contents[id].kind = "article" => ScoreGap(scores[id]) <= 100

\* a video of 56 views and 17 likes is stored with base 0.23, engagement 3.04
\* and final 8.37, while 0.23 * 1.5 + 5 + 3.04 = 8.385
C23_Witness ==
    /\ ScoreStored
    /\ contents[1].kind = "video"
    /\ stats[1].views = 56
    /\ stats[1].likes = 17
    /\ ScoreGap(scores[1]) > 100

C25_ScoreIffStats ==
    /\ lastOp.op = "noscore" => 1 \notin DOMAIN stats /\ scores = <<>> /\ lastOp.ok
    /\ lastOp.op = "score" =>
          /\ 1 \in DOMAIN stats
          /\ 1 \in DOMAIN scores
          /\ lastOp.ok
          /\ contents[1].kind = "video" /\ stats[1].views = 0 =>
                scores[1].engagement = 0
          /\ contents[1].kind = "article" /\ stats[1].readingTime = 0 =>
                scores[1].engagement = 0
    /\ lastOp.op = "none" => (ENABLED ScoreNil <=> 1 \notin DOMAIN stats)
    /\ lastOp.op = "none" => (ENABLED ScoreSave <=> 1 \in DOMAIN stats)

\* a video without views and with 5000 likes has been scored, engagement 0
C25_Witness ==
    /\ ScoreStored
    /\ contents[1].kind = "video"
    /\ stats[1].views = 0
    /\ stats[1].likes = 5000
    /\ scores[1].engagement = 0

----------------------------------------------------------------------------
(* HTTP transport: the router and the per-IP rate limiter *)

\* how many requests and how many seconds a behaviour holds
MaxRequests == 3
MaxTicks == 2

\* RATE_LIMIT_PER_MINUTE, http.StatusTooManyRequests
RateLimitPerMinute == 60
StatusTooManyRequests == 429

ClientIPs == {1, 2}
Methods == {"GET", "POST", "OPTIONS"}
Paths == {"/api/v1/search", "/api/v1/health", "/api/v1/admin/sync", "/api/v1/x"}

\* the routes of the /api/v1 subrouter in the order they are registered:
\* HandleFunc("/search").Methods("GET", "OPTIONS"), HandleFunc("/health"),
\* HandleFunc("/admin/sync"), NewRoute().Path("/search").Methods("GET") with
\* the handler wrapped in rateLimiter.Middleware
Routes ==
    << [path |-> "/api/v1/search", methods |-> {"GET", "OPTIONS"},
        limited |-> FALSE, handler |-> "search"],
       [path |-> "/api/v1/health", methods |-> {"GET"}, limited |-> FALSE,
        handler |-> "health"],
       [path |-> "/api/v1/admin/sync", methods |-> {"POST", "OPTIONS"},
        limited |-> FALSE, handler |-> "sync"],
       [path |-> "/api/v1/search", methods |-> {"GET"}, limited |-> TRUE,
        handler |-> "search"] >>

\* mux.Router.Match: the routes are tested in the order they were added and
\* the first that matches path and method wins; 0 when none does
RouteMatch(method, path) ==
    LET hits == {k \in DOMAIN Routes :
                    Routes[k].path = path /\ method \in Routes[k].methods}
    IN  IF hits = {} THEN 0 ELSE CHOOSE k \in hits : \A j \in hits : k <= j

\* getLimiter: the tokens of the limiter of ip, a new limiter holding burst
TokensOf(ip) ==
    IF ip \in DOMAIN http.limiters THEN http.limiters[ip] ELSE RateLimitPerMinute

\* what the wrapped handler writes: HandleSearch answers 200 or 500, the
\* other handlers 200
HandlerStatuses(h) ==
    IF h = "search" THEN {StatusOK, StatusInternalServerError} ELSE {StatusOK}

\* one request through the router: no route (the router's 404, or 405 when
\* only the method differs), a route behind RateLimiter.Middleware (limiter.Allow, 429
\* with Retry-After: 60 when it refuses, next.ServeHTTP otherwise), or a
\* route straight to its handler
ServeHTTP(method, path, ip) ==
    /\ http.n < MaxRequests
    /\ LET k == RouteMatch(method, path)
           seen == [http EXCEPT !.n = @ + 1, !.method = method, !.path = path,
                                !.ip = ip, !.limited = FALSE, !.had = -1,
                                !.handler = "none", !.retryAfter = 0]
       IN  IF k = 0
           THEN http' = [seen EXCEPT !.status =
                            IF \E j \in DOMAIN Routes : Routes[j].path = path
                            THEN 405 ELSE 404]
           ELSE IF Routes[k].limited
           THEN IF TokensOf(ip) = 0
                THEN http' = [seen EXCEPT !.limited = TRUE, !.had = 0,
                                          !.limiters = PutRow(@, ip, 0),
                                          !.status = StatusTooManyRequests,
                                          !.retryAfter = 60]
                ELSE \E st \in HandlerStatuses(Routes[k].handler) :
                        http' = [seen EXCEPT !.limited = TRUE, !.had = TokensOf(ip),
                                             !.limiters = PutRow(@, ip, TokensOf(ip) - 1),
                                             !.handler = Routes[k].handler,
                                             !.status = st]
           ELSE \E st \in HandlerStatuses(Routes[k].handler) :
                   http' = [seen EXCEPT !.handler = Routes[k].handler, !.status = st]
    /\ UNCHANGED <<storeVars, syncVars, searchVars, adapter, ops, failures>>

\* one second passes: every limiter gains rate = RateLimitPerMinute / 60
\* tokens, up to its burst
Tick ==
    /\ now < T0 + MaxTicks
    /\ now' = now + 1
    /\ http' = [http EXCEPT !.limiters =
                  [ip \in DOMAIN @ |->
                      IF @[ip] + RateLimitPerMinute \div 60 > RateLimitPerMinute
                      THEN RateLimitPerMinute
                      ELSE @[ip] + RateLimitPerMinute \div 60]]
    /\ UNCHANGED <<contents, stats, scores, tags, contentTags, lastOp>>
    /\ UNCHANGED <<syncVars, searchVars, adapter, ops, failures>>

\* CleanupOldLimiters: the ticker replaces the map by an empty one
CleanupOldLimiters ==
    /\ http.n > 0
    /\ http' = [http EXCEPT !.limiters = <<>>]
    /\ UNCHANGED <<storeVars, syncVars, searchVars, adapter, ops, failures>>

InitHttp ==
    /\ StoreInit
    /\ SyncIdle
    /\ clients = {}
    /\ SearchInit
    /\ ops = 0
    /\ failures = 0

NextHttp ==
    \/ \E m \in Methods, p \in Paths, ip \in ClientIPs : ServeHTTP(m, p, ip)
    \/ Tick
    \/ CleanupOldLimiters

SpecHttp == InitHttp /\ [][NextHttp]_vars

\* the request served last was GET /api/v1/search
SearchServed ==
    http.n > 0 /\ http.method = "GET" /\ http.path = "/api/v1/search"

\* C26, as the claim states it: every GET /api/v1/search passes through the
\* per-IP rate limiter before it reaches the search handler, and a request
\* from an IP whose bucket is exhausted is answered 429 with Retry-After: 60
\* without the search handler being invoked.
C26_AsWritten ==
    SearchServed =>
        /\ http.limited
        /\ http.had = 0 =>
              /\ http.status = StatusTooManyRequests
              /\ http.retryAfter = 60
              /\ http.handler = "none"

----------------------------------------------------------------------------
(* Sync: the sweep threshold, the order of the writes, record failures *)

\* the step is the successful stale sweep of provider p
SweepStepOf(p) ==
    /\ pc[p] = "sweep" /\ pc'[p] = "done"
    /\ lastOp'.op = "sweep" /\ lastOp'.ok /\ lastOp'.provider = p

RecordFailed(p) ==
    /\ pc[p] \in {"upsert", "stats", "score", "tags"}
    /\ hist'[p].errs = hist[p].errs + 1

\* C30: a store failure while a record is processed (upsert, stats, score or
\* tag write) does not end the provider's run: the loop goes on with the next
\* record, the records are taken one by one in the order fetched, none is
\* passed over, and the goroutine ends only through the stale sweep, which is
\* issued after the last record.
C30_RecordFailureSkipped ==
    [][\A p \in clients :
          /\ RecordFailed(p) =>
                /\ ~lastOp'.ok
                /\ fetched'[p] = fetched[p] /\ idx'[p] = idx[p] + 1
                /\ pc'[p] = IF idx[p] < Len(fetched[p]) THEN "upsert" ELSE "sweep"
                /\ run' = run
          /\ pc'[p] = "upsert" /\ <<pc[p], idx[p]>> # <<pc'[p], idx'[p]>> =>
                /\ idx'[p] \in 1..Len(fetched'[p])
                /\ idx'[p] = IF pc[p] = "fetch" THEN 1 ELSE idx[p] + 1
          /\ pc[p] # "sweep" /\ pc'[p] = "sweep" =>
                idx'[p] = Len(fetched'[p]) + 1
          /\ pc[p] # "done" /\ pc'[p] = "done" =>
                /\ pc[p] = "sweep"
                /\ lastOp'.op = "sweep" /\ lastOp'.provider = p
                /\ hist'[p].sweep \in {"ok", "failed"}]_vars

\* provider 1 has returned from a run of two records in which a write of the
\* first record failed: the second record was upserted and the sweep was done
C30_Witness ==
    /\ pc[1] = "done"
    /\ Len(fetched[1]) = 2
    /\ hist[1].errs = 1
    /\ fetched[1][1].ext \notin hist[1].upserted
    /\ fetched[1][2].ext \in hist[1].upserted
    /\ IsLive(1, fetched[1][2].ext)
    /\ hist[1].sweep = "ok"

----------------------------------------------------------------------------
(* Searches running while sync runs: the use cases over one store and cache *)

\* the requests made meanwhile: one that is accepted, one that is rejected
LiveParams ==
    {Params(<<>>, "", "popularity", 1, DefaultPageSize),
     Params(<<>>, "audio", "", 1, 1)}

\* an empty store and cache, one provider client, no request yet
InitLive ==
    /\ StoreInit
    /\ SyncIdle
    /\ clients = {1}
    /\ SearchInit
    /\ ops = 0
    /\ failures = 0

\* the steps of the sync goroutines and of the request goroutine interleave
NextLive ==
    \/ SyncStart
    \/ \E p \in clients : ProviderBegin(p)
    \/ \E p \in clients : FetchOk(p)
    \/ \E p \in clients : FetchError(p)
    \/ \E p \in clients : PcUpsert(p)
    \/ \E p \in clients : PcStats(p)
    \/ \E p \in clients : PcScore(p)
    \/ \E p \in clients : PcTags(p)
    \/ \E p \in clients : PcFail(p)
    \/ \E p \in clients : PcSweep(p)
    \/ \E p \in clients : PcSweepFail(p)
    \/ SyncClear
    \/ SyncClearFail
    \/ \E r \in LiveParams : SearchBegin(r)
    \/ \E r \in LiveParams : SearchReject(r)
    \/ CacheHit
    \/ CacheMiss
    \/ CacheGetFail
    \/ StoreCount
    \/ StoreRows
    \/ StoreSearchFail
    \/ CacheSet
    \/ CacheSetFail

SpecLive == InitLive /\ [][NextLive]_vars

\* C21: a failure of the Result Cache fails no operation: after a failing get
\* Execute goes on to query the store as after a miss, after a failing set it
\* returns the result the store gave, and a sync run returns nil whether its
\* clear succeeded or failed; the failing call leaves the cache as it was.
C21_CacheFailureAbsorbed ==
    [][/\ spc = "get" /\ spc' # "get" /\ failures' # failures =>
             /\ spc' = "search"
             /\ sres' = sres /\ cache' = cache
       /\ spc = "rows" /\ spc' = "set" =>
             /\ sres'.result.items \in {out.items : out \in SearchOutcomes(sreq.params)}
             /\ sres'.result.pagination = sres.result.pagination
       /\ spc = "set" /\ spc' # "set" /\ failures' # failures =>
             /\ spc' = "idle"
             /\ sres'.status = "ok" /\ sres'.result = sres.result
             /\ cache' = cache
       /\ run.phase = "running" /\ run'.phase # "running" =>
             /\ run'.phase = "returned" /\ run'.result = "nil"
             /\ failures' # failures => cache' = cache]_vars

\* the only request made was answered from the store after its get failed:
\* a statement failed, the store search and the set did not
C21_Witness ==
    /\ ops = 1 /\ failures = 1 /\ run.n = 0
    /\ spc = "idle"
    /\ sres.status = "ok" /\ sres.repo /\ ~sres.hit
    /\ sreq.key \in DOMAIN cache

\* C28, as the claim states it: once the clear of a run has completed (the
\* run has returned and no statement failed), a cache hit returns a result
\* that the store in its present state gives, not one computed from the
\* store as it was before the run's writes.
C28_AsWritten ==
    [][spc = "get" /\ spc' = "idle" /\ sres'.hit
          /\ run.phase = "returned" /\ failures = 0 =>
             sres'.result \in {Envelope(sreq.params, out) :
                                  out \in SearchOutcomes(sreq.params)}]_vars

\* ---------------------------------------------------------------------
\* A failed fetch and the provider's rows
\* ---------------------------------------------------------------------

\* C31: when a provider's FetchContents returned an error in a run, that
\* provider's goroutine has returned without an upsert and without a stale
\* sweep, and the provider's live external ids are those the run started
\* with: no row of the provider changed its deleted flag in the run.
C31_FailedFetchWritesNothing ==
    \A p \in clients : run.n > 0 /\ hist[p].fetch = "error" =>
        /\ pc[p] = "failed"
        /\ hist[p].upserted = {} /\ hist[p].errs = 0
        /\ hist[p].sweep = "none"
        /\ LiveExts(contents, p) = hist[p].before

\* C31 witness: the second run has returned; provider 1's fetch failed in it
\* and the row it had from the first run is still live, while provider 2
\* was swept in the same run
C31_Witness ==
    /\ run.n = 2 /\ run.phase = "returned"
    /\ hist[1].fetch = "error" /\ hist[1].before # {}
    /\ LiveExts(contents, 1) = hist[1].before
    /\ 2 \in clients /\ hist[2].sweep = "ok"
\* ---------------------------------------------------------------------
\* The page walk of FetchContents: cancellation, tokens, decoding, the end
\* of the walk and the returned list
\* ---------------------------------------------------------------------

\* the context was cancelled while the call waited for a rate-limit token or
\* was in a backoff delay
CancelledInWait == adapter.ctx = "done" /\ adapter.at \in {"limiter", "sleep"}

\* C32, as the claim states it: once the context is cancelled while the
\* adapter waits for a token or is in a backoff delay, the adapter issues no
\* further network call and the call returns an error.
C32_AsWritten ==
    [][CancelledInWait =>
          /\ Attempts(adapter'.trace) <= Attempts(adapter.trace)
          /\ adapter'.pc = "done" => adapter'.out.status = "error"]_vars

\* C33, as the claim states it: every network call follows a token
\* acquisition of its own, so between two acquisitions (the trace of a page
\* starts at the acquisition) at most one attempt is issued.
C33_AsWritten == Attempts(adapter.trace) <= 1

\* the call returned because the body of a page did not decode
DecodeFailed ==
    /\ adapter.pc = "done" /\ adapter.out.status = "error"
    /\ ~adapter.resp.err /\ adapter.resp.status = StatusOK
    /\ ~adapter.resp.body.parses

\* C34, as the claim states it: a page whose body does not decode has been
\* fetched 3 times before the call returns the error.
C34_AsWritten == DecodeFailed => Attempts(adapter.trace) = MaxRetries

\* C35, as the claim states it: after a page that yielded zero records no
\* further page is requested, so the call is never past an attempt while the
\* page read last yielded nothing.
C35_AsWritten == adapter.yield = 0 => adapter.pc \notin {"read", "sleep", "after"}

\* C36, as the claim states it: the list a call returns holds each
\* external id at most once.
C36_AsWritten ==
    adapter.pc = "done" /\ adapter.out.status = "ok" =>
        Cardinality({adapter.out.records[k].ext : k \in 1..Len(adapter.out.records)})
            = Len(adapter.out.records)
\* ---------------------------------------------------------------------
\* Tags: blank names
\* ---------------------------------------------------------------------

\* C37, as the claim states it: every tag row holds a name that is
\* lowercased, trimmed and not empty, so no tag row with an empty name exists
\* and none is linked to a content.
C37_AsWritten ==
    /\ \A t \in 1..Len(tags) : tags[t] = TagName(tags[t]) /\ tags[t] # <<>>
    /\ \A l \in contentTags : tags[l[2]] # <<>>
\* ---------------------------------------------------------------------
\* Search beside a sync run: the total and the page
\* ---------------------------------------------------------------------

RetagFeed(p, n) ==
    IF n = 1 THEN (IF p = 1 THEN <<RecA2, RecB1>> ELSE <<RecA2>>)
             ELSE <<RecA1>>

\* FetchContents returned the records
FetchRetag(p) ==
    /\ pc[p] = "fetch"
    /\ fetched' = [fetched EXCEPT ![p] = RetagFeed(p, run.n)]
    /\ pc' = [pc EXCEPT ![p] = "upsert"]
    /\ idx' = [idx EXCEPT ![p] = 1]
    /\ hist' = [hist EXCEPT ![p].fetch = "ok"]
    /\ UNCHANGED <<storeVars, run, startTime, cur, failures>>
    /\ SyncFrame

NextRetag ==
    \/ SyncStart
    \/ \E p \in clients : ProviderBegin(p)
    \/ \E p \in clients : FetchRetag(p)
    \/ \E p \in clients : FetchError(p)
    \/ \E p \in clients : PcUpsert(p)
    \/ \E p \in clients : PcStats(p)
    \/ \E p \in clients : PcScore(p)
    \/ \E p \in clients : PcTags(p)
    \/ \E p \in clients : PcFail(p)
    \/ \E p \in clients : PcSweep(p)
    \/ \E p \in clients : PcSweepFail(p)
    \/ SyncClear
    \/ SyncClearFail

SpecRetag == Init /\ [][NextRetag]_vars

\* the provider's goroutine has gone through its records and no statement
\* of it returned an error
SyncedClean(p) ==
    run.n > 0 /\ pc[p] = "done" /\ hist[p].fetch = "ok" /\ hist[p].errs = 0

\* the names AddTags stores for the tags of a record
StoredNames(r) == {TagName(r.tags[k]) : k \in DOMAIN r.tags}

\* C39, as the claim states it: after a provider's records were synced
\* without error, the tags linked to the content of each record are exactly
\* the record's normalized tag names that are not empty.
C39_AsWritten ==
    \A p \in clients : SyncedClean(p) =>
        \A k \in DOMAIN fetched[p] :
            \A id \in KeyIds(contents, p, fetched[p][k].ext) :
                TagsOf(id) = StoredNames(fetched[p][k]) \ {<<>>}

\* C39 (amended): after a provider's records were synced without error,
\* every normalized tag name of a record is linked to the record's content;
\* no step removes a tag row or a link, so a tag linked by an earlier run
\* stays linked when the provider no longer emits it.
C39_TagsAccumulate ==
    /\ [](\A p \in clients : SyncedClean(p) =>
            \A k \in DOMAIN fetched[p] :
                \A id \in KeyIds(contents, p, fetched[p][k].ext) :
                    StoredNames(fetched[p][k]) \subseteq TagsOf(id))
    /\ [][/\ contentTags \subseteq contentTags'
          /\ Len(tags) <= Len(tags') /\ SubSeq(tags', 1, Len(tags)) = tags]_vars

\* C39 witness: the second run synced record a of provider 1 with the tag go
\* alone, without error, and tag a of the first run is still linked to it
C39_Witness ==
    /\ run.n = 2 /\ 1 \in clients /\ SyncedClean(1)
    /\ fetched[1] = <<RecA1>>
    /\ \E id \in KeyIds(contents, 1, "a") :
          /\ StoredNames(RecA1) = {<<"g", "o">>}
          /\ TagsOf(id) = {<<"g", "o">>, <<"a">>}
====
